---- MODULE Spec2Model ----
(***************************************************************************)
(* Operator actions of a WorkflowRun (pkg/utils/operation.go): Suspend,    *)
(* Resume, Rollback, Restart (full and from a step) and Terminate, acting  *)
(* on the run object an operator holds and on the objects the API server   *)
(* stores (the run's status and the context ConfigMap); the IDs of the    *)
(* task runners (pkg/steps/generator.go); the memory store of the          *)
(* workflow context (pkg/context).                                         *)
(***************************************************************************)
EXTENDS Integers, Sequences, FiniteSets, TLC

VARIABLES
    steps,      \* the declared steps: [inline, found, list] (never written)
    stored,     \* the WorkflowRun as the API server stores it: [status, rv]
    run,        \* wo.run, the object the operator holds: [status, rv]
    cm,         \* the stored context ConfigMap: [exists, vars], vars its top-level fields
    last,       \* the last operator call: its name, argument, outcome and pre-state
    ops,        \* number of operator calls made so far
    writes,     \* number of writes by another writer (the controller) so far
    dep,        \* the last direct call of getStepDependency: [called, stepName, dag, result]
    tasks,      \* the calls of Generate: [n, out, status, runners, seen]
    memoryStore, \* wf.memoryStore: the values stored under each key
    mem,        \* the calls on the memory store: [n, key, ret, byKey]
    goroutines, \* the calls of IncreaseCountValueInMemory in progress: [pc, key, ok, c] each
    workflowMemoryCache, \* the registry of memory stores: the store, or Held, under each key
    EnableInMemoryContext, \* the toggle between the ConfigMap and the MemStore backing
    configMaps, \* the ConfigMaps the API server stores, by name
    MemStore,   \* the in-memory contexts, by name
    wf,         \* the WorkflowContext in use: [live, store, components, vars, modified]
    called      \* the calls on the context: the last one and its pre-state

\* The state of the operator and of the reconciles.
operatorVars == <<steps, stored, run, cm, last, ops, writes, dep, tasks>>

\* The state of the context package.
contextVars ==
    <<goroutines, workflowMemoryCache, EnableInMemoryContext, configMaps, MemStore, wf, called>>

vars ==
    <<steps, stored, run, cm, last, ops, writes, dep, tasks, memoryStore, mem,
      goroutines, workflowMemoryCache, EnableInMemoryContext, configMaps, MemStore, wf, called>>

(***************************************************************************)
(* Bounds                                                                  *)
(***************************************************************************)
MaxOps == 2
MaxWrites == 1
MaxDependsOn == 1
MaxTicks == 2
MaxCalls == 4
MaxGoroutines == 2
MaxContextCalls == 4

(***************************************************************************)
(* Enumerations of api/v1alpha1 and pkg/types used by operation.go         *)
(***************************************************************************)
WorkflowStepPhaseSucceeded == "succeeded"
WorkflowStepPhaseFailed == "failed"
WorkflowStepPhaseSkipped == "skipped"
WorkflowStepPhaseRunning == "running"
WorkflowStepPhasePending == "pending"
WorkflowStepPhaseSuspending == "suspending"

StatusReasonFailedAfterRetries == "FailedAfterRetries"
StatusReasonTimeout == "Timeout"
StatusReasonTerminate == "Terminate"
StatusReasonExecute == "Execute"

WorkflowStepTypeSuspend == "suspend"
WorkflowStepTypeStepGroup == "step-group"
WorkflowStepTypeApply == "apply-object"

WorkflowModeDAG == "DAG"
WorkflowModeStep == "StepByStep"

\* No context ConfigMap is stored.
NoCM == [exists |-> FALSE, vars |-> <<>>]

NoCall == [called |-> FALSE, stepName |-> "", dag |-> FALSE, result |-> [ok |-> TRUE, list |-> <<>>]]

\* The empty sync.Map.
NoValues == [k \in {} |-> 0]

\* The memory store has not been called.  byKey[k] lists what the calls of
\* IncreaseCountValueInMemory on the key k returned, from a call that found
\* no entry on, until a SetValueInMemory or DeleteValueInMemory on k.
NoCounts == [n |-> 0, key |-> <<>>, ret |-> 0, byKey |-> [k \in {} |-> <<>>]]

(***************************************************************************)
(* Generic sequence helpers                                                *)
(***************************************************************************)
Range(s) == {s[i] : i \in DOMAIN s}

\* stringsContain: linear search of items for source.
stringsContain(items, source) == \E i \in DOMAIN items : items[i] = source

RECURSIVE mergeFrom(_, _, _)
mergeFrom(a, b, i) ==
    IF i > Len(b) THEN a
    ELSE mergeFrom(IF stringsContain(a, b[i]) THEN a ELSE Append(a, b[i]), b, i + 1)

\* mergeUniqueStringSlice: a followed by the items of b that a does not hold yet.
mergeUniqueStringSlice(a, b) == mergeFrom(a, b, 1)

(***************************************************************************)
(* Declared steps.  A step is [Name, Type, DependsOn, Inputs, Outputs,     *)
(* SubSteps]; Inputs holds the From of every input, Outputs the Name of    *)
(* every output; a substep has SubSteps = <<>>.                            *)
(***************************************************************************)
Step(n, t, d, i, o, s) ==
    [Name |-> n, Type |-> t, DependsOn |-> d, Inputs |-> i, Outputs |-> o, SubSteps |-> s]

RECURSIVE FlatFrom(_, _)
FlatFrom(ss, i) ==
    IF i > Len(ss) THEN <<>>
    ELSE <<ss[i]>> \o ss[i].SubSteps \o FlatFrom(ss, i + 1)

\* The order in which the loops of getStepDependency and clearContextVars
\* visit the declared steps: each step, then its substeps.
Flat(ss) == FlatFrom(ss, 1)

(***************************************************************************)
(* Status.  A run status is [Suspend, Terminated, Finished, EndTime, Mode, *)
(* ContextBackend, Steps]; EndTime 0 is the zero time, ContextBackend ""   *)
(* is the nil reference.  A step status is [Name, Type, Phase, Reason, ID, *)
(* SubStepsStatus]; a substep status has no SubStepsStatus field.          *)
(***************************************************************************)
Sub(n, t, p, r, id) == [Name |-> n, Type |-> t, Phase |-> p, Reason |-> r, ID |-> id]

St(n, t, p, r, id, subs) ==
    [Name |-> n, Type |-> t, Phase |-> p, Reason |-> r, ID |-> id, SubStepsStatus |-> subs]

Mode(s, ss) == [Steps |-> s, SubSteps |-> ss]

\* The places of the status entries sts: <<i, 0>> for the top-level entry i,
\* <<i, j>> for the substep entry j of the top-level entry i.
Places(sts) ==
    {<<i, 0>> : i \in DOMAIN sts}
    \cup UNION {{<<i, j>> : j \in DOMAIN sts[i].SubStepsStatus} : i \in DOMAIN sts}

At(sts, p) == IF p[2] = 0 THEN sts[p[1]] ELSE sts[p[1]].SubStepsStatus[p[2]]

\* v1alpha1.WorkflowRunStatus{}
ZeroStatus ==
    [Suspend |-> FALSE, Terminated |-> FALSE, Finished |-> FALSE, EndTime |-> 0,
     Mode |-> Mode("", ""), ContextBackend |-> "", Steps |-> <<>>]

\* Generate has not been called.
NoTasks == [n |-> 0, out |-> "", status |-> ZeroStatus, runners |-> <<>>, seen |-> {}]

(***************************************************************************)
(* TerminateWorkflow, lines 171-198: the mutation of run.Status            *)
(***************************************************************************)
\* A switch that fails Pending steps with the Running ones.
terminateOnePendingToo(s) ==
    IF s.Phase \in {WorkflowStepPhaseRunning, WorkflowStepPhasePending}
    THEN [s EXCEPT !.Phase = WorkflowStepPhaseFailed, !.Reason = StatusReasonTerminate]
    ELSE s

\* A switch that gives every Failed step the reason Terminate.
terminateOneAnyReason(s) ==
    IF s.Phase \in {WorkflowStepPhaseFailed, WorkflowStepPhaseRunning}
    THEN [s EXCEPT !.Phase = WorkflowStepPhaseFailed, !.Reason = StatusReasonTerminate]
    ELSE s

\* The switch on the phase of one step or substep status.
terminateOne(s) ==
    CASE s.Phase = WorkflowStepPhaseFailed ->
            IF s.Reason # StatusReasonFailedAfterRetries /\ s.Reason # StatusReasonTimeout
            THEN [s EXCEPT !.Reason = StatusReasonTerminate]
            ELSE s
      [] s.Phase = WorkflowStepPhaseRunning ->
            [s EXCEPT !.Phase = WorkflowStepPhaseFailed, !.Reason = StatusReasonTerminate]
      [] OTHER -> s

terminateStep(s) ==
    [terminateOne(s) EXCEPT
        !.SubStepsStatus = [j \in DOMAIN s.SubStepsStatus |-> terminateOne(s.SubStepsStatus[j])]]

\* A Terminate that leaves Suspend as it finds it.
terminateStatusKeepsSuspend(status) ==
    [status EXCEPT !.Terminated = TRUE,
                   !.Steps = [i \in DOMAIN status.Steps |-> terminateStep(status.Steps[i])]]

terminateStatus(status) ==
    [status EXCEPT !.Terminated = TRUE,
                   !.Suspend = FALSE,
                   !.Steps = [i \in DOMAIN status.Steps |-> terminateStep(status.Steps[i])]]

(***************************************************************************)
(* ResumeWorkflow, lines 100-111: the mutation of run.Status               *)
(***************************************************************************)
\* A test that leaves the step type out.
resumeOneAnyType(s) ==
    IF s.Phase = WorkflowStepPhaseRunning
    THEN [s EXCEPT !.Phase = WorkflowStepPhaseSucceeded]
    ELSE s

resumeOne(s) ==
    IF s.Type = WorkflowStepTypeSuspend /\ s.Phase = WorkflowStepPhaseRunning
    THEN [s EXCEPT !.Phase = WorkflowStepPhaseSucceeded]
    ELSE s

resumeStep(s) ==
    [resumeOne(s) EXCEPT
        !.SubStepsStatus = [j \in DOMAIN s.SubStepsStatus |-> resumeOne(s.SubStepsStatus[j])]]

resumeStatus(status) ==
    [status EXCEPT !.Suspend = FALSE,
                   !.Steps = [i \in DOMAIN status.Steps |-> resumeStep(status.Steps[i])]]

(***************************************************************************)
(* deleteStepStatus / deleteSubStepStatus                                  *)
(***************************************************************************)
\* A filter that keeps nothing while a substep is restarted.
keepStepOutsideGroup(dependency, step, stepName, group) ==
    ~group /\ ~stringsContain(dependency, step.Name) /\ step.Name # stepName

keepStep(dependency, step, stepName, group) ==
    \/ group /\ ~stringsContain(dependency, step.Name)
    \/ ~group /\ ~stringsContain(dependency, step.Name) /\ step.Name # stepName

deleteStepStatus(dependency, stepStatus, stepName, group) ==
    LET Keep(step) == keepStep(dependency, step, stepName, group)
    IN  SelectSeq(stepStatus, Keep)

deleteSubStepStatus(dependency, subSteps, stepName) ==
    LET Keep(step) == ~stringsContain(dependency, step.Name) /\ step.Name # stepName
    IN  SelectSeq(subSteps, Keep)

(***************************************************************************)
(* getStepDependency and findDependency                                    *)
(***************************************************************************)
Names(ss) == [i \in DOMAIN ss |-> ss[i].Name]

\* The non-DAG branch with the inner loops starting at the step itself.
RECURSIVE dependencyInOrderFromSelf(_, _, _)
dependencyInOrderFromSelf(ss, stepName, i) ==
    IF i > Len(ss) THEN <<>>
    ELSE IF ss[i].Name = stepName THEN SubSeq(Names(ss), i, Len(ss))
    ELSE LET subs == ss[i].SubSteps
             hits == {j \in DOMAIN subs : subs[j].Name = stepName}
         IN  IF hits # {}
             THEN LET j == CHOOSE x \in hits : \A y \in hits : x <= y
                  IN  SubSeq(Names(subs), j, Len(subs))
             ELSE dependencyInOrderFromSelf(ss, stepName, i + 1)

\* Lines 367-385: the steps declared after stepName, at the level where the
\* first step of that name is found (a step before its own substeps).
RECURSIVE dependencyInOrder(_, _, _)
dependencyInOrder(ss, stepName, i) ==
    IF i > Len(ss) THEN <<>>
    ELSE IF ss[i].Name = stepName THEN SubSeq(Names(ss), i + 1, Len(ss))
    ELSE LET subs == ss[i].SubSteps
             hits == {j \in DOMAIN subs : subs[j].Name = stepName}
         IN  IF hits # {}
             THEN LET j == CHOOSE x \in hits : \A y \in hits : x <= y
                  IN  SubSeq(Names(subs), j + 1, Len(subs))
             ELSE dependencyInOrder(ss, stepName, i + 1)

\* Lines 389-400: dependsOn[name] = DependsOn, a later step of the same name
\* overwriting an earlier one.
RECURSIVE declaredDependsOn(_, _)
declaredDependsOn(flat, n) ==
    IF n = 0 THEN [k \in {} |-> <<>>]
    ELSE LET d == declaredDependsOn(flat, n - 1)
             e == flat[n]
         IN  [k \in DOMAIN d \cup {e.Name} |-> IF k = e.Name THEN e.DependsOn ELSE d[k]]

\* Lines 389-400: stepOutputs[output.Name] = the name of the step declaring it,
\* the last declaration winning.
RECURSIVE outputsOf(_, _, _)
outputsOf(e, o, m) ==
    IF m = 0 THEN o
    ELSE LET p == outputsOf(e, o, m - 1)
         IN  [k \in DOMAIN p \cup {e.Outputs[m]} |-> IF k = e.Outputs[m] THEN e.Name ELSE p[k]]

RECURSIVE stepOutputsOf(_, _)
stepOutputsOf(flat, n) ==
    IF n = 0 THEN [k \in {} |-> ""]
    ELSE outputsOf(flat[n], stepOutputsOf(flat, n - 1), Len(flat[n].Outputs))

\* Lines 402-406 and 408-412: the inputs of one step add their producers.
RECURSIVE addInputs(_, _, _, _)
addInputs(d, e, so, m) ==
    IF m = 0 THEN d
    ELSE LET p == addInputs(d, e, so, m - 1)
             from == e.Inputs[m]
         IN  IF from \in DOMAIN so /\ ~stringsContain(p[e.Name], so[from])
             THEN [p EXCEPT ![e.Name] = Append(@, so[from])]
             ELSE p

RECURSIVE withInputs(_, _, _, _)
withInputs(d, flat, so, n) ==
    IF n = 0 THEN d
    ELSE addInputs(withInputs(d, flat, so, n - 1), flat[n], so, Len(flat[n].Inputs))

\* Lines 387-414: the dependsOn map handed to findDependency.
dependsOnMap(ss) ==
    LET flat == Flat(ss)
    IN  withInputs(declaredDependsOn(flat, Len(flat)), flat,
                   stepOutputsOf(flat, Len(flat)), Len(flat))

RECURSIVE keysFrom(_, _)
keysFrom(flat, n) ==
    IF n = 0 THEN <<>>
    ELSE LET k == keysFrom(flat, n - 1)
         IN  IF stringsContain(k, flat[n].Name) THEN k ELSE Append(k, flat[n].Name)

\* The keys of dependsOn in one iteration order.  Go iterates a map in an
\* unspecified order; the callers of findDependency read the result only
\* through stringsContain, so one order stands for all.
mapKeys(ss) == keysFrom(Flat(ss), Len(Flat(ss)))

\* findDependency, lines 427-438, as [ok, list]: the loops over keys[k..] and
\* deps[d..].  depth counts the pending recursive calls: a call nested deeper
\* than the number of keys revisits a key, so the recursion never returns and
\* ok is FALSE.
RECURSIVE findDependencyFrom(_, _, _, _, _, _)
findDependencyFrom(stepName, dependsOn, keys, k, d, depth) ==
    IF k > Len(keys) THEN [ok |-> TRUE, list |-> <<>>]
    ELSE IF d > Len(dependsOn[keys[k]])
    THEN findDependencyFrom(stepName, dependsOn, keys, k + 1, 1, depth)
    ELSE IF dependsOn[keys[k]][d] # stepName
    THEN findDependencyFrom(stepName, dependsOn, keys, k, d + 1, depth)
    ELSE IF depth >= Len(keys) THEN [ok |-> FALSE, list |-> <<>>]
    ELSE LET inner == findDependencyFrom(keys[k], dependsOn, keys, 1, 1, depth + 1)
         IN  IF ~inner.ok THEN inner
             ELSE LET rest == findDependencyFrom(stepName, dependsOn, keys, k, d + 1, depth)
                  IN  [ok |-> rest.ok, list |-> <<keys[k]>> \o inner.list \o rest.list]

\* The direct dependents only: the loops without the recursive call.
findDependencyDirect(stepName, dependsOn, keys) ==
    LET Direct(k) == stringsContain(dependsOn[k], stepName)
    IN  [ok |-> TRUE, list |-> SelectSeq(keys, Direct)]

findDependency(stepName, dependsOn, keys) ==
    findDependencyFrom(stepName, dependsOn, keys, 1, 1, 0)

\* getStepDependency, lines 366-416, as [ok, list].
getStepDependency(ss, stepName, dag) ==
    IF ~dag THEN [ok |-> TRUE, list |-> dependencyInOrder(ss, stepName, 1)]
    ELSE findDependency(stepName, dependsOnMap(ss), mapKeys(ss))

(***************************************************************************)
(* clearContextVars.  The vars document is a sequence of top-level fields  *)
(* [label, value]; a label is the text of its syntax node, character by    *)
(* character at the granularity that matters here: an identifier           *)
(* <<name>>, a quoted string <<Quote, name, Quote>>.                       *)
(***************************************************************************)
Quote == "\""

Ident(n) == <<n>>
Quoted(n) == <<Quote, n, Quote>>
Field(l, v) == [label |-> l, value |-> v]

\* strings.Trim(s, cut): drop every leading and trailing cut.
RECURSIVE TrimLeft(_, _)
TrimLeft(s, cut) == IF s # <<>> /\ Head(s) = cut THEN TrimLeft(Tail(s), cut) ELSE s

RECURSIVE TrimRight(_, _)
TrimRight(s, cut) ==
    IF s # <<>> /\ s[Len(s)] = cut THEN TrimRight(SubSeq(s, 1, Len(s) - 1), cut) ELSE s

Trim(s, cut) == TrimRight(TrimLeft(s, cut), cut)

\* Lines 296-310: the output names of stepName and of the steps in dependency.
RECURSIVE outputsFrom(_, _, _, _)
outputsFrom(flat, stepName, dependency, i) ==
    IF i > Len(flat) THEN <<>>
    ELSE (IF flat[i].Name = stepName \/ stringsContain(dependency, flat[i].Name)
          THEN flat[i].Outputs ELSE <<>>)
         \o outputsFrom(flat, stepName, dependency, i + 1)

clearedOutputs(ss, stepName, dependency) == outputsFrom(Flat(ss), stepName, dependency, 1)

\* The filter with the label compared as it is written, quotes included.
clearContextVarsUntrimmed(ss, v, stepName, dependency) ==
    LET outputs == clearedOutputs(ss, stepName, dependency)
        Keep(field) == ~\E i \in DOMAIN outputs : field.label = <<outputs[i]>>
    IN  SelectSeq(v, Keep)

\* Lines 316-325: the fields that stay.
clearContextVars(ss, v, stepName, dependency) ==
    LET outputs == clearedOutputs(ss, stepName, dependency)
        label(field) == Trim(field.label, Quote)
        Keep(field) == ~\E i \in DOMAIN outputs : label(field) = <<outputs[i]>>
    IN  SelectSeq(v, Keep)

(***************************************************************************)
(* RestartFromStep, lines 219-264: the search for stepName in the status.  *)
(* The loop state is [A, S, shared, dependency, found, out]: A is the      *)
(* array behind stepStatus, S is run.Status.Steps, shared says that S is   *)
(* still that same array, out is "" while the loop runs.                   *)
(***************************************************************************)
firstSub(subs, stepName) ==
    LET hits == {j \in DOMAIN subs : subs[j].Name = stepName}
    IN  IF hits = {} THEN 0 ELSE CHOOSE x \in hits : \A y \in hits : x <= y

\* The top-level case without the test of line 237.
restartTopAnyPhase(ss, mode, stepName, L, i) ==
    LET d == getStepDependency(ss, stepName, mode.Steps = WorkflowModeDAG)
    IN  IF ~d.ok THEN [L EXCEPT !.out = "overflow"]
        ELSE [L EXCEPT !.S = deleteStepStatus(d.list, L.A, stepName, FALSE),
                       !.shared = FALSE,
                       !.dependency = d.list,
                       !.found = TRUE,
                       !.out = "break"]

\* Lines 236-244: stepName is the top-level step A[i].
restartTop(ss, mode, stepName, L, i) ==
    IF L.A[i].Phase # WorkflowStepPhaseFailed THEN [L EXCEPT !.out = "nonfailed"]
    ELSE LET d == getStepDependency(ss, stepName, mode.Steps = WorkflowModeDAG)
         IN  IF ~d.ok THEN [L EXCEPT !.out = "overflow"]
             ELSE [L EXCEPT !.S = deleteStepStatus(d.list, L.A, stepName, FALSE),
                            !.shared = FALSE,
                            !.dependency = d.list,
                            !.found = TRUE,
                            !.out = "break"]

\* Lines 246-259: stepName is the substep j of A[i].  The writes through
\* run.Status.Steps[i] land in A as well while S is still the same array, and
\* fail with an index out of range when S has become shorter than i.
restartSub(ss, mode, stepName, L, i, j) ==
    LET step == L.A[i]
        sub == step.SubStepsStatus[j]
        subDependency == getStepDependency(ss, stepName, mode.SubSteps = WorkflowModeDAG)
        stepDependency == getStepDependency(ss, step.Name, mode.Steps = WorkflowModeDAG)
        Written(x) == [x EXCEPT
            !.SubStepsStatus = deleteSubStepStatus(subDependency.list, step.SubStepsStatus, stepName),
            !.Phase = WorkflowStepPhaseRunning,
            !.Reason = ""]
    IN  IF sub.Phase # WorkflowStepPhaseFailed THEN [L EXCEPT !.out = "nonfailed"]
        ELSE IF ~subDependency.ok THEN [L EXCEPT !.out = "overflow"]
        ELSE IF i > Len(L.S) THEN [L EXCEPT !.out = "panic"]
        ELSE IF ~stepDependency.ok THEN [L EXCEPT !.out = "overflow"]
        ELSE LET A2 == IF L.shared THEN [L.A EXCEPT ![i] = Written(@)] ELSE L.A
             IN  [L EXCEPT !.A = A2,
                           !.S = deleteStepStatus(stepDependency.list, A2, stepName, TRUE),
                           !.shared = FALSE,
                           !.dependency = mergeUniqueStringSlice(subDependency.list, stepDependency.list),
                           !.found = TRUE]

\* The outer loop from index i on.  The break of line 258 leaves the inner
\* loop only, so the outer loop goes on after a substep was handled.
RECURSIVE restartLoop(_, _, _, _, _)
restartLoop(ss, mode, stepName, L, i) ==
    IF L.out # "" \/ i > Len(L.A) THEN L
    ELSE IF L.A[i].Name = stepName THEN restartTop(ss, mode, stepName, L, i)
    ELSE LET j == firstSub(L.A[i].SubStepsStatus, stepName)
         IN  IF j = 0 THEN restartLoop(ss, mode, stepName, L, i + 1)
             ELSE restartLoop(ss, mode, stepName, restartSub(ss, mode, stepName, L, i, j), i + 1)

\* Lines 213-264 without the reset of EndTime of lines 216-218.
restartFromStepLocalKeepsEndTime(ss, status, stepName) ==
    LET cleared == [status EXCEPT !.Terminated = FALSE, !.Suspend = FALSE, !.Finished = FALSE]
        L0 == [A |-> status.Steps, S |-> status.Steps, shared |-> TRUE,
               dependency |-> <<>>, found |-> FALSE, out |-> ""]
        L == restartLoop(ss, status.Mode, stepName, L0, 1)
        out == IF L.out \in {"nonfailed", "panic", "overflow"} THEN L.out
               ELSE IF ~L.found THEN "notfound" ELSE "ok"
    IN  [status |-> [cleared EXCEPT !.Steps = L.S], dependency |-> L.dependency, out |-> out]

\* Lines 213-264 on the held status: [status, dependency, out], out one of
\* "ok", "nonfailed", "notfound", "panic", "overflow".
restartFromStepLocal(ss, status, stepName) ==
    LET cleared == [status EXCEPT !.Terminated = FALSE, !.Suspend = FALSE,
                                  !.Finished = FALSE, !.EndTime = 0]
        L0 == [A |-> status.Steps, S |-> status.Steps, shared |-> TRUE,
               dependency |-> <<>>, found |-> FALSE, out |-> ""]
        L == restartLoop(ss, status.Mode, stepName, L0, 1)
        out == IF L.out \in {"nonfailed", "panic", "overflow"} THEN L.out
               ELSE IF ~L.found THEN "notfound" ELSE "ok"
    IN  [status |-> [cleared EXCEPT !.Steps = L.S], dependency |-> L.dependency, out |-> out]

(***************************************************************************)
(* The API server as the client calls of operation.go see it.              *)
(***************************************************************************)
\* cli.Status().Patch(ctx, run, client.Merge): the body is the whole held
\* object, so its resourceVersion must be the stored one, and each status
\* field it carries replaces the stored one.  Steps and ContextBackend are
\* left out of the body when empty, and then keep their stored value.
MergePatch(old, new) ==
    [new EXCEPT !.Steps = IF new.Steps = <<>> THEN old.Steps ELSE new.Steps,
                !.ContextBackend = IF new.ContextBackend = "" THEN old.ContextBackend
                                   ELSE new.ContextBackend]

Conflict(r) == r.rv # stored.rv

Obj(status, rv) == [status |-> status, rv |-> rv]

\* The record of an operator call.
Call(op, step, out, dependency) ==
    [op |-> op, step |-> step, out |-> out, dependency |-> dependency,
     preStored |-> stored.status, preRun |-> run.status, preCM |-> cm]

CanCall == ops < MaxOps /\ last.out \notin {"panic", "overflow"}

\* The declared steps RestartFromStep works with, lines 223-232.
declared == steps.list

(***************************************************************************)
(* Suspend, lines 66-81                                                    *)
(***************************************************************************)
\* A Suspend that flips the flag.
suspendStatusToggles(status) == [status EXCEPT !.Suspend = ~status.Suspend]

suspendStatus(status) == [status EXCEPT !.Suspend = TRUE]

\* A Suspend without the Get of line 70: the held run is patched as it is.
SuspendHeld ==
    /\ CanCall
    /\ LET patched == Obj(MergePatch(stored.status, suspendStatus(run.status)), stored.rv + 1)
       IN  /\ stored' = patched
           /\ run' = patched
    /\ last' = Call("Suspend", "", "ok", <<>>)
    /\ ops' = ops + 1
    /\ UNCHANGED <<steps, cm, writes, dep, tasks, memoryStore, mem, contextVars>>

Suspend ==
    /\ CanCall
    /\ LET got == stored.status
           patched == Obj(MergePatch(stored.status, suspendStatus(got)), stored.rv + 1)
       IN  /\ stored' = patched
           /\ run' = patched
    /\ last' = Call("Suspend", "", "ok", <<>>)
    /\ ops' = ops + 1
    /\ UNCHANGED <<steps, cm, writes, dep, tasks, memoryStore, mem, contextVars>>

(***************************************************************************)
(* Resume, lines 84-96, with ResumeWorkflow, lines 99-118                  *)
(***************************************************************************)
\* Resume without the refusal of lines 86-88.
ResumeTerminated ==
    /\ CanCall
    /\ LET patched == Obj(MergePatch(stored.status, resumeStatus(run.status)), stored.rv + 1)
       IN  IF Conflict(run)
           THEN /\ run' = Obj(resumeStatus(run.status), run.rv)
                /\ last' = Call("Resume", "", "conflict", <<>>)
                /\ UNCHANGED stored
           ELSE /\ stored' = patched
                /\ run' = patched
                /\ last' = Call("Resume", "", "ok", <<>>)
    /\ ops' = ops + 1
    /\ UNCHANGED <<steps, cm, writes, dep, tasks, memoryStore, mem, contextVars>>

\* Resume without the test of line 90.
ResumeUnsuspended ==
    /\ CanCall
    /\ IF run.status.Terminated
       THEN /\ last' = Call("Resume", "", "terminated", <<>>)
            /\ UNCHANGED <<stored, run>>
       ELSE LET mutated == resumeStatus(run.status)
            IN  IF Conflict(run)
                THEN /\ run' = Obj(mutated, run.rv)
                     /\ last' = Call("Resume", "", "conflict", <<>>)
                     /\ UNCHANGED stored
                ELSE LET patched == Obj(MergePatch(stored.status, mutated), stored.rv + 1)
                     IN  /\ stored' = patched
                         /\ run' = patched
                         /\ last' = Call("Resume", "", "ok", <<>>)
    /\ ops' = ops + 1
    /\ UNCHANGED <<steps, cm, writes, dep, tasks, memoryStore, mem, contextVars>>

Resume ==
    /\ CanCall
    /\ IF run.status.Terminated
       THEN /\ last' = Call("Resume", "", "terminated", <<>>)
            /\ UNCHANGED <<stored, run>>
       ELSE IF ~run.status.Suspend
       THEN /\ last' = Call("Resume", "", "ok", <<>>)
            /\ UNCHANGED <<stored, run>>
       ELSE LET mutated == resumeStatus(run.status)
            IN  IF Conflict(run)
                THEN /\ run' = Obj(mutated, run.rv)
                     /\ last' = Call("Resume", "", "conflict", <<>>)
                     /\ UNCHANGED stored
                ELSE LET patched == Obj(MergePatch(stored.status, mutated), stored.rv + 1)
                     IN  /\ stored' = patched
                         /\ run' = patched
                         /\ last' = Call("Resume", "", "ok", <<>>)
    /\ ops' = ops + 1
    /\ UNCHANGED <<steps, cm, writes, dep, tasks, memoryStore, mem, contextVars>>

(***************************************************************************)
(* Rollback, lines 121-123                                                 *)
(***************************************************************************)
\* A Rollback that returns nil.
RollbackSucceeds ==
    /\ CanCall
    /\ last' = Call("Rollback", "", "ok", <<>>)
    /\ ops' = ops + 1
    /\ UNCHANGED <<steps, stored, run, cm, writes, dep, tasks, memoryStore, mem, contextVars>>

Rollback ==
    /\ CanCall
    /\ last' = Call("Rollback", "", "unsupported", <<>>)
    /\ ops' = ops + 1
    /\ UNCHANGED <<steps, stored, run, cm, writes, dep, tasks, memoryStore, mem, contextVars>>

(***************************************************************************)
(* Terminate, lines 160-166, with TerminateWorkflow, lines 169-206         *)
(***************************************************************************)
Terminate ==
    /\ CanCall
    /\ LET mutated == terminateStatus(run.status)
       IN  IF Conflict(run)
           THEN /\ run' = Obj(mutated, run.rv)
                /\ last' = Call("Terminate", "", "conflict", <<>>)
                /\ UNCHANGED stored
           ELSE LET patched == Obj(MergePatch(stored.status, mutated), stored.rv + 1)
                IN  /\ stored' = patched
                    /\ run' = patched
                    /\ last' = Call("Terminate", "", "ok", <<>>)
    /\ ops' = ops + 1
    /\ UNCHANGED <<steps, cm, writes, dep, tasks, memoryStore, mem, contextVars>>

(***************************************************************************)
(* Restart, lines 126-132, with RestartWorkflow, lines 135-157, and        *)
(* RestartFromStep, lines 209-292                                          *)
(***************************************************************************)
\* A full restart that fails on a context object that is already gone instead
\* of tolerating the miss of line 145.
RestartAllNeedsContext ==
    IF run.status.ContextBackend # "" /\ ~cm.exists
    THEN /\ last' = Call("Restart", "", "cmnotfound", <<>>)
         /\ UNCHANGED <<stored, run, cm>>
    ELSE /\ cm' = IF run.status.ContextBackend # "" THEN NoCM ELSE cm
         /\ IF Conflict(run)
            THEN /\ run' = Obj(ZeroStatus, run.rv)
                 /\ last' = Call("Restart", "", "conflict", <<>>)
                 /\ UNCHANGED stored
            ELSE /\ stored' = Obj(ZeroStatus, stored.rv + 1)
                 /\ run' = Obj(ZeroStatus, stored.rv + 1)
                 /\ last' = Call("Restart", "", "ok", <<>>)

\* Lines 139-154: the full restart.
RestartAll ==
    LET deleted == IF run.status.ContextBackend # "" THEN NoCM ELSE cm
    IN  /\ cm' = deleted
        /\ IF Conflict(run)
           THEN /\ run' = Obj(ZeroStatus, run.rv)
                /\ last' = Call("Restart", "", "conflict", <<>>)
                /\ UNCHANGED stored
           ELSE /\ stored' = Obj(ZeroStatus, stored.rv + 1)
                /\ run' = Obj(ZeroStatus, stored.rv + 1)
                /\ last' = Call("Restart", "", "ok", <<>>)

\* Lines 271-290: the cleanup of the context after the status was written.
ClearContext(status, stepName, dependency) ==
    IF status.ContextBackend = "" THEN [out |-> "ok", cm |-> cm]
    ELSE IF cm = NoCM THEN [out |-> "cmnotfound", cm |-> cm]
    ELSE [out |-> "ok",
          cm |-> [cm EXCEPT !.vars = clearContextVars(declared, cm.vars, stepName, dependency)]]

RestartStep(stepName) ==
    IF ~steps.inline /\ ~steps.found
    THEN \* lines 213-230: the referenced Workflow cannot be read
         /\ run' = Obj([run.status EXCEPT !.Terminated = FALSE, !.Suspend = FALSE,
                                         !.Finished = FALSE, !.EndTime = 0], run.rv)
         /\ last' = Call("Restart", stepName, "noworkflow", <<>>)
         /\ UNCHANGED <<stored, cm>>
    ELSE LET r == restartFromStepLocal(declared, run.status, stepName)
         IN  IF r.out \in {"panic", "overflow"}
             THEN /\ last' = Call("Restart", stepName, r.out, <<>>)
                  /\ UNCHANGED <<stored, run, cm>>
             ELSE IF r.out # "ok"
             THEN /\ run' = Obj(r.status, run.rv)
                  /\ last' = Call("Restart", stepName, r.out, <<>>)
                  /\ UNCHANGED <<stored, cm>>
             ELSE IF Conflict(run)
             THEN /\ run' = Obj(r.status, run.rv)
                  /\ last' = Call("Restart", stepName, "conflict", r.dependency)
                  /\ UNCHANGED <<stored, cm>>
             ELSE LET c == ClearContext(r.status, stepName, r.dependency)
                  IN  /\ stored' = Obj(r.status, stored.rv + 1)
                      /\ run' = Obj(r.status, stored.rv + 1)
                      /\ cm' = c.cm
                      /\ last' = Call("Restart", stepName, c.out, r.dependency)

DeclaredNames == {Flat(declared)[i].Name : i \in DOMAIN Flat(declared)}

UnknownStep == "zz"

Restart ==
    /\ CanCall
    /\ \E step \in {""} \cup DeclaredNames \cup {UnknownStep} :
          IF step = "" THEN RestartAll ELSE RestartStep(step)
    /\ ops' = ops + 1
    /\ UNCHANGED <<steps, writes, dep, tasks, memoryStore, mem, contextVars>>

(***************************************************************************)
(* The environment of the operator                                         *)
(***************************************************************************)
\* Another writer (the controller's reconcile) writes the stored status: the
\* first Pending or Running top-level step advances, unless the run is
\* suspended or terminated, and the resourceVersion moves on.
advance(s) ==
    IF s.Phase = WorkflowStepPhasePending THEN [s EXCEPT !.Phase = WorkflowStepPhaseRunning]
    ELSE [s EXCEPT !.Phase = WorkflowStepPhaseSucceeded]

reconciled(status) ==
    LET live == {i \in DOMAIN status.Steps :
                    status.Steps[i].Phase \in {WorkflowStepPhasePending, WorkflowStepPhaseRunning}}
    IN  IF status.Suspend \/ status.Terminated \/ live = {} THEN status
        ELSE LET i == CHOOSE x \in live : \A y \in live : x <= y
             IN  [status EXCEPT !.Steps[i] = advance(@)]

ExternalWrite ==
    /\ writes < MaxWrites
    /\ last.out \notin {"panic", "overflow"}
    /\ stored' = Obj(reconciled(stored.status), stored.rv + 1)
    /\ writes' = writes + 1
    /\ last' = [last EXCEPT !.op = "Write"]
    /\ UNCHANGED <<steps, run, cm, ops, dep, tasks, memoryStore, mem, contextVars>>

\* NewWorkflowRunOperator, lines 57-63, on a run the caller has just read.
NewWorkflowRunOperator ==
    /\ run # stored \/ last.out \in {"panic", "overflow"}
    /\ run' = stored
    /\ last' = [last EXCEPT !.op = "New", !.out = "ok"]
    /\ UNCHANGED <<steps, stored, cm, ops, writes, dep, tasks, memoryStore, mem, contextVars>>

(***************************************************************************)
(* Generate, generator.go lines 42-63, with generateTaskRunner, lines      *)
(* 96-135: the IDs and the substep mode of the task runners of one         *)
(* reconcile.  A task runner is [Name, ID, SubTaskRunners,                 *)
(* SubStepExecuteMode].                                                    *)
(***************************************************************************)
\* The outcomes of utils.RandomString(10) told apart here.
RandomIDs == {"rnd1", "rnd2"}

\* generateStepID, lines 137-145; id is what utils.RandomString returns.
generateStepID(status, name, id) ==
    LET hits == {i \in DOMAIN status.Steps : status.Steps[i].Name = name}
    IN  IF hits = {} THEN id
        ELSE status.Steps[CHOOSE x \in hits : \A y \in hits : x <= y].ID

\* A lookup of the substep among the top-level status entries.
generateSubStepIDTopLevel(status, name, parentStepName, id) ==
    generateStepID(status, name, id)

\* generateSubStepID, lines 147-159.
generateSubStepID(status, name, parentStepName, id) ==
    LET hits == {p \in Places(status.Steps) :
                    /\ p[2] # 0
                    /\ status.Steps[p[1]].Name = parentStepName
                    /\ At(status.Steps, p).Name = name}
    IN  IF hits = {} THEN id
        ELSE At(status.Steps, CHOOSE x \in hits : \A y \in hits :
                                 x[1] < y[1] \/ (x[1] = y[1] /\ x[2] <= y[2])).ID

\* <<parent, name>> of every declared step and substep.
DeclaredKeys ==
    {<<"", declared[i].Name>> : i \in DOMAIN declared}
    \cup UNION {{<<declared[i].Name, declared[i].SubSteps[j].Name>> : j \in DOMAIN declared[i].SubSteps} :
                   i \in DOMAIN declared}

\* Lines 119-122: the substep mode of a group's runner under wr.Spec.Mode.
subStepExecuteMode(mode) == IF mode.nil THEN WorkflowModeDAG ELSE mode.SubSteps

\* Lines 101-122: the runner of one step; random maps <<parent, name>> to
\* what utils.RandomString returns for it.  The options of a step that is
\* no group keep the zero SubStepExecuteMode.
generateTaskRunner(status, step, id, random) ==
    [Name |-> step.Name,
     ID |-> id,
     SubTaskRunners |->
        IF step.Type = WorkflowStepTypeStepGroup
        THEN [j \in DOMAIN step.SubSteps |->
                [Name |-> step.SubSteps[j].Name,
                 ID |-> generateSubStepID(status, step.SubSteps[j].Name, step.Name,
                                          random[<<step.Name, step.SubSteps[j].Name>>]),
                 SubTaskRunners |-> <<>>,
                 SubStepExecuteMode |-> ""]]
        ELSE <<>>,
     SubStepExecuteMode |->
        IF step.Type = WorkflowStepTypeStepGroup THEN subStepExecuteMode(steps.mode) ELSE ""]

\* <<parent, name, ID>> of every status entry.
StatusIDs(status) ==
    {<<IF p[2] = 0 THEN "" ELSE status.Steps[p[1]].Name,
       At(status.Steps, p).Name, At(status.Steps, p).ID>> : p \in Places(status.Steps)}

\* What utils.RandomString returns, for the steps and substeps that have no
\* status entry to take an ID from; the others never call it.
RandomStrings(status) ==
    {random \in [DeclaredKeys -> RandomIDs] :
        \A k \in DeclaredKeys :
            (\E e \in StatusIDs(status) : e[1] = k[1] /\ e[2] = k[2]) => random[k] = "rnd1"}

\* Generate on the stored run.  wr.Spec.WorkflowSpec is nil for a run that
\* names its Workflow by reference, and line 49 dereferences it.
Generate ==
    /\ tasks.n < MaxTicks
    /\ IF ~steps.inline
       THEN tasks' = [n |-> tasks.n + 1, out |-> "panic", status |-> stored.status,
                      runners |-> <<>>, seen |-> tasks.seen \cup StatusIDs(tasks.status)]
       ELSE \E random \in RandomStrings(stored.status) :
               tasks' = [n |-> tasks.n + 1, out |-> "ok", status |-> stored.status,
                         runners |-> [i \in DOMAIN declared |->
                             generateTaskRunner(stored.status, declared[i],
                                 generateStepID(stored.status, declared[i].Name,
                                                random[<<"", declared[i].Name>>]),
                                 random)],
                         seen |-> tasks.seen \cup StatusIDs(tasks.status)]
    /\ UNCHANGED <<steps, stored, run, cm, last, ops, writes, dep, memoryStore, mem, contextVars>>

(***************************************************************************)
(* The memory store of a WorkflowContext (package context in               *)
(* examples/def-doc/step-group.eg.md).  A string is the sequence of its    *)
(* characters; a stored value is [int, v]: an int v, or a value of another *)
(* type.                                                                   *)
(***************************************************************************)
IntValue(v) == [int |-> TRUE, v |-> v]
Other == [int |-> FALSE, v |-> 0]

\* strings.Join(paths, ".")
RECURSIVE Join(_, _)
Join(paths, sep) ==
    IF paths = <<>> THEN <<>>
    ELSE IF Len(paths) = 1 THEN paths[1]
    ELSE paths[1] \o sep \o Join(Tail(paths), sep)

Store(m, key, value) == [k \in DOMAIN m \cup {key} |-> IF k = key THEN value ELSE m[k]]

Delete(m, key) == [k \in DOMAIN m \ {key} |-> m[k]]

Without(key) == [k \in DOMAIN mem.byKey \ {key} |-> mem.byKey[k]]

\* A counter that returns the count it found.
increaseCountReturnsOld(m, key) ==
    IF key \notin DOMAIN m \/ ~m[key].int THEN [m |-> Store(m, key, IntValue(0)), ret |-> 0]
    ELSE [m |-> Store(m, key, IntValue(m[key].v + 1)), ret |-> m[key].v]

\* Lines 189-202 on the map m: [m, ret].
increaseCount(m, key) ==
    IF key \notin DOMAIN m THEN [m |-> Store(m, key, IntValue(0)), ret |-> 0]
    ELSE IF ~m[key].int THEN [m |-> Store(m, key, IntValue(0)), ret |-> 0]
    ELSE [m |-> Store(m, key, IntValue(m[key].v + 1)), ret |-> m[key].v + 1]

\* The path arguments of the calls: a, a and b, "a.b", c.
PathLists == {<<<<"a">>>>, <<<<"a">>, <<"b">>>>, <<<<"a", ".", "b">>>>, <<<<"c">>>>}

IncreaseCountValueInMemory ==
    /\ mem.n < MaxCalls
    /\ \E paths \in PathLists :
          LET key == Join(paths, <<".">>)
              r == increaseCount(memoryStore, key)
          IN  /\ memoryStore' = r.m
              /\ mem' = [n |-> mem.n + 1, key |-> key, ret |-> r.ret,
                         byKey |-> IF key \notin DOMAIN memoryStore
                                   THEN Store(mem.byKey, key, <<r.ret>>)
                                   ELSE IF key \in DOMAIN mem.byKey
                                   THEN Store(mem.byKey, key, Append(mem.byKey[key], r.ret))
                                   ELSE mem.byKey]
    /\ UNCHANGED <<steps, stored, run, cm, last, ops, writes, dep, tasks, contextVars>>

\* SetValueInMemory, lines 206-208, with a value that is no int.
SetValueInMemory ==
    /\ mem.n < MaxCalls
    /\ \E paths \in PathLists :
          LET key == Join(paths, <<".">>)
          IN  /\ memoryStore' = Store(memoryStore, key, Other)
              /\ mem' = [n |-> mem.n + 1, key |-> key, ret |-> 0, byKey |-> Without(key)]
    /\ UNCHANGED <<steps, stored, run, cm, last, ops, writes, dep, tasks, contextVars>>

\* GetValueInMemory, lines 211-213.
GetValueInMemory ==
    /\ mem.n < MaxCalls
    /\ \E paths \in PathLists :
          LET key == Join(paths, <<".">>)
          IN  mem' = [mem EXCEPT !.n = mem.n + 1, !.key = key,
                                 !.ret = IF key \in DOMAIN memoryStore THEN memoryStore[key].v ELSE 0]
    /\ UNCHANGED <<steps, stored, run, cm, last, ops, writes, dep, tasks, memoryStore, contextVars>>

\* DeleteValueInMemory, lines 216-218.
DeleteValueInMemory ==
    /\ mem.n < MaxCalls
    /\ \E paths \in PathLists :
          LET key == Join(paths, <<".">>)
          IN  /\ memoryStore' = Delete(memoryStore, key)
              /\ mem' = [n |-> mem.n + 1, key |-> key, ret |-> 0, byKey |-> Without(key)]
    /\ UNCHANGED <<steps, stored, run, cm, last, ops, writes, dep, tasks, contextVars>>

(***************************************************************************)
(* IncreaseCountValueInMemory, lines 188-203, called by several goroutines *)
(* on one context: sync.Map makes the Load of line 190 and each Store      *)
(* atomic, and nothing makes the two one step.                             *)
(***************************************************************************)
Goroutines == 1..MaxGoroutines

Idle == [pc |-> "idle", key |-> <<>>, ok |-> FALSE, c |-> Other]

\* Line 190: c, ok := wf.memoryStore.Load(key)
loadCount(m, key) ==
    [pc |-> "loaded", key |-> key, ok |-> key \in DOMAIN m,
     c |-> IF key \in DOMAIN m THEN m[key] ELSE Other]

\* Lines 191-202: the count stored and returned after the Load.
countAfter(loaded) == IF ~loaded.ok \/ ~loaded.c.int THEN 0 ELSE loaded.c.v + 1

\* Lines 189-190 in the goroutine g.
LoadCount(g) ==
    /\ goroutines[g].pc = "idle"
    /\ mem.n < MaxCalls
    /\ \E paths \in PathLists :
          goroutines' = [goroutines EXCEPT ![g] = loadCount(memoryStore, Join(paths, <<".">>))]
    /\ mem' = [mem EXCEPT !.n = mem.n + 1]
    /\ UNCHANGED <<operatorVars, memoryStore, workflowMemoryCache, EnableInMemoryContext,
                   configMaps, MemStore, wf, called>>

\* Lines 191-202 in the goroutine g: the Store and the return.  byKey keeps
\* what the calls on each key have returned, in the order of their return.
StoreCount(g) ==
    /\ goroutines[g].pc = "loaded"
    /\ LET key == goroutines[g].key
           count == countAfter(goroutines[g])
       IN  /\ memoryStore' = Store(memoryStore, key, IntValue(count))
           /\ mem' = [mem EXCEPT !.key = key, !.ret = count,
                                  !.byKey = Store(mem.byKey, key,
                                      Append(IF key \in DOMAIN mem.byKey THEN mem.byKey[key]
                                             ELSE <<>>, count))]
    /\ goroutines' = [goroutines EXCEPT ![g] = Idle]
    /\ UNCHANGED <<operatorVars, workflowMemoryCache, EnableInMemoryContext,
                   configMaps, MemStore, wf, called>>

(***************************************************************************)
(* The workflow context, pkg/context.  A string is a sequence of tokens,   *)
(* "" the empty sequence.  A value of the expression language is a struct  *)
(* of concrete fields, a function from labels to numbers.  A ConfigMap is  *)
(* [Namespace, Name, OwnerReferences, Data], Data a function from keys to  *)
(* strings; the API server and the MemStore hold ConfigMaps by             *)
(* <<namespace, name>>.                                                    *)
(***************************************************************************)
ConfigMapKeyComponents == <<"components">>
ConfigMapKeyVars == <<"vars">>

NoObjects == [n \in {} |-> 0]

EmptyValue == [l \in {} |-> 0]

\* The labels of the values told apart here, in the order a value is
\* rendered in.
Labels == <<"x", "y">>

\* v.String(): the fields of the value, one after the other.
RECURSIVE StringFrom(_, _)
StringFrom(v, i) ==
    IF i > Len(Labels) THEN <<>>
    ELSE (IF Labels[i] \in DOMAIN v THEN <<Field(Ident(Labels[i]), v[Labels[i]])>> ELSE <<>>)
         \o StringFrom(v, i + 1)

String(v) == StringFrom(v, 1)

\* value.NewValue(s): the struct that the fields of the string s declare.
NewValue(s) ==
    [l \in {Trim(s[i].label, Quote)[1] : i \in DOMAIN s} |->
        s[CHOOSE i \in DOMAIN s : Trim(s[i].label, Quote)[1] = l].value]

\* Two values unify unless they give one label two numbers.
Unifiable(a, b) == \A l \in DOMAIN a \cap DOMAIN b : a[l] = b[l]

Unify(a, b) == [l \in DOMAIN a \cup DOMAIN b |-> IF l \in DOMAIN a THEN a[l] ELSE b[l]]

\* ComponentManifest.string, lines 342-359: the componentMould of a
\* component [Workload, Auxiliaries].
componentString(comp) ==
    <<[StandardWorkload |-> String(comp.Workload),
       Traits |-> [i \in DOMAIN comp.Auxiliaries |-> String(comp.Auxiliaries[i])]]>>

\* A rendering that leaves the auxiliaries out.
componentUnmarshalWithoutTraits(js) ==
    [Workload |-> NewValue(js[1].StandardWorkload), Auxiliaries |-> <<>>]

\* ComponentManifest.unmarshal, lines 361-384.
componentUnmarshal(js) ==
    [Workload |-> NewValue(js[1].StandardWorkload),
     Auxiliaries |-> [i \in DOMAIN js[1].Traits |-> NewValue(js[1].Traits[i])]]

\* The component names told apart here, in the order json.Marshal writes
\* the keys of a map in.
ComponentNames == <<"db", "web">>

\* json.Marshal(jsonObject), line 260: an object of the entries of the map,
\* "{}" for the empty map.
RECURSIVE MembersFrom(_, _)
MembersFrom(jsonObject, i) ==
    IF i > Len(ComponentNames) THEN <<>>
    ELSE (IF ComponentNames[i] \in DOMAIN jsonObject
          THEN <<[name |-> ComponentNames[i], text |-> jsonObject[ComponentNames[i]]]>>
          ELSE <<>>)
         \o MembersFrom(jsonObject, i + 1)

Marshal(jsonObject) == <<[brace |-> "{"]>> \o MembersFrom(jsonObject, 1) \o <<[brace |-> "}"]>>

\* A decoding that finds no entry.
UnmarshalNothing(text) == NoObjects

\* json.Unmarshal into a map[string]string, line 295.
Unmarshal(text) ==
    LET members == SubSeq(text, 2, Len(text) - 1)
    IN  [n \in {members[i].name : i \in DOMAIN members} |->
            members[CHOOSE i \in DOMAIN members : members[i].name = n].text]

\* data[key], "" for a key the map does not hold.
DataAt(data, key) == IF key \in DOMAIN data THEN data[key] ELSE <<>>

Key(object) == <<object.Namespace, object.Name>>

\* generateStoreName, lines 494-496.
generateStoreName(name) == <<"workflow-">> \o name \o <<"-context">>

NoStore == [Namespace |-> <<>>, Name |-> <<>>, OwnerReferences |-> <<>>, Data |-> NoObjects]

NoContext ==
    [live |-> FALSE, store |-> NoStore, components |-> NoObjects, vars |-> EmptyValue,
     modified |-> FALSE]

\* No call so far.  chain follows the calls since the last Commit that wrote:
\* "committed" after it, "loaded" once its object was loaded again, "" after
\* any other call that changes the context.
NoContextCall ==
    [n |-> 0, op |-> "", out |-> "", arg |-> <<>>, chain |-> "", ops |-> 0, calls |-> 0,
     pre |-> NoContext, preChain |-> "", preMaps |-> NoObjects, preMem |-> NoObjects]

\* The registry workflowMemoryCache maps a key to a sync.Map.  The map that
\* the context in use holds is the variable memoryStore, and the registry
\* refers to it as Held; the other maps are kept with their values.
Held == [held |-> TRUE, m |-> NoValues]

Kept(m) == [held |-> FALSE, m |-> m]

\* The registry when the context in use is given up for another map.
Released(cache, m) == [k \in DOMAIN cache |-> IF cache[k].held THEN Kept(m) ELSE cache[k]]

\* fmt.Sprintf("%s-%s", name, ns), lines 398, 440 and 481.
CacheKey(name, ns) == name \o <<"-">> \o ns

\* getMemoryStore, lines 454-466, when the context in use holds the map m:
\* the registry and the map of the new context.
getMemoryStore(cache, m, key) ==
    IF key \in DOMAIN cache /\ cache[key].held THEN [cache |-> cache, m |-> m]
    ELSE IF key \in DOMAIN cache
    THEN [cache |-> Store(Released(cache, m), key, Held), m |-> cache[key].m]
    ELSE [cache |-> Store(Released(cache, m), key, Held), m |-> NoValues]

\* MemStore.GetOrCreateInMemoryContext: the object of the registry under the
\* key of store is copied into store, and store is registered when there is
\* none.
GetOrCreateInMemoryContext(ms, store) ==
    IF Key(store) \in DOMAIN ms THEN [store |-> ms[Key(store)], MemStore |-> ms]
    ELSE [store |-> store, MemStore |-> Store(ms, Key(store), store)]

\* MemStore.UpdateInMemoryContext: store replaces the object under its key.
UpdateInMemoryContext(ms, store) == Store(ms, Key(store), store)

\* cli.Patch(ctx, store, client.MergeFrom(base)) on the stored object
\* server: the merge patch holds what store changes against base.
Patch(server, base, store) ==
    [server EXCEPT
        !.OwnerReferences = IF store.OwnerReferences = base.OwnerReferences THEN @
                            ELSE store.OwnerReferences,
        !.Data = [k \in (DOMAIN server.Data \ (DOMAIN base.Data \ DOMAIN store.Data))
                         \cup {j \in DOMAIN store.Data :
                                  j \notin DOMAIN base.Data \/ base.Data[j] # store.Data[j]} |->
                    IF k \in DOMAIN store.Data /\ (k \notin DOMAIN base.Data \/ base.Data[k] # store.Data[k])
                    THEN store.Data[k] ELSE server.Data[k]]]

\* newContext, lines 401-452, up to the store of the context: random is what
\* rand.RandomString(5) returns.
newContext(ns, name, owner, random) ==
    LET store == [Namespace |-> ns, Name |-> generateStoreName(name),
                  OwnerReferences |-> owner, Data |-> NoObjects]
        renamed == [store EXCEPT !.Name = generateStoreName(name) \o <<"-">> \o random]
    IN  IF EnableInMemoryContext
        THEN GetOrCreateInMemoryContext(MemStore, store) @@ [err |-> "", configMaps |-> configMaps]
        ELSE IF Key(store) \notin DOMAIN configMaps
        THEN [err |-> "", store |-> store, MemStore |-> MemStore,
              configMaps |-> Store(configMaps, Key(store), store)]
        ELSE IF configMaps[Key(store)].OwnerReferences = owner
        THEN [err |-> "", store |-> configMaps[Key(store)], MemStore |-> MemStore,
              configMaps |-> configMaps]
        ELSE IF Key(renamed) \in DOMAIN configMaps
        THEN [err |-> "exists", store |-> store, MemStore |-> MemStore, configMaps |-> configMaps]
        ELSE [err |-> "", store |-> renamed, MemStore |-> MemStore,
              configMaps |-> Store(configMaps, Key(renamed), renamed)]

\* writeToStore, lines 243-267.
writeToStore(w) ==
    LET jsonObject == [n \in DOMAIN w.components |-> componentString(w.components[n])]
    IN  [w EXCEPT !.store.Data =
            Store(Store(@, ConfigMapKeyComponents, Marshal(jsonObject)),
                  ConfigMapKeyVars, String(w.vars))]

\* sync, lines 269-284: the Patch of line 283 follows the update of the
\* MemStore as well, with an empty ConfigMap as its base.
sync(store, cms, ms) ==
    IF EnableInMemoryContext
    THEN IF Key(store) \notin DOMAIN cms
         THEN [err |-> "notfound", configMaps |-> cms, MemStore |-> UpdateInMemoryContext(ms, store)]
         ELSE [err |-> "", MemStore |-> UpdateInMemoryContext(ms, store),
               configMaps |-> Store(cms, Key(store), Patch(cms[Key(store)], NoStore, store))]
    ELSE IF Key(store) \notin DOMAIN cms
    THEN [err |-> "", configMaps |-> Store(cms, Key(store), store), MemStore |-> ms]
    ELSE [err |-> "", MemStore |-> ms,
          configMaps |-> Store(cms, Key(store), Patch(cms[Key(store)], cms[Key(store)], store))]

\* A Commit that writes whatever the flag says.
commitUnmodified(w, cms, ms) ==
    LET s == sync(writeToStore(w).store, cms, ms)
    IN  [err |-> s.err, wf |-> writeToStore(w), configMaps |-> s.configMaps, MemStore |-> s.MemStore]

\* Commit, lines 230-241, of the context w.
commit(w, cms, ms) ==
    IF ~w.modified THEN [err |-> "", wf |-> w, configMaps |-> cms, MemStore |-> ms]
    ELSE LET s == sync(writeToStore(w).store, cms, ms)
         IN  [err |-> s.err, wf |-> writeToStore(w), configMaps |-> s.configMaps,
              MemStore |-> s.MemStore]

\* LoadFromConfigMap, lines 291-312, on a context that has a store.
loadFromConfigMap(w, object) ==
    LET componentsJs == Unmarshal(DataAt(object.Data, ConfigMapKeyComponents))
    IN  [w EXCEPT
            !.components = IF DataAt(object.Data, ConfigMapKeyComponents) # <<>>
                           THEN [n \in DOMAIN componentsJs |-> componentUnmarshal(componentsJs[n])]
                           ELSE @,
            !.vars = NewValue(DataAt(object.Data, ConfigMapKeyVars))]

\* The calls on the context made so far, those on its memory store included.
CanCallContext == called.n + mem.n < MaxContextCalls

Calling(op, out, arg, chain) ==
    [n |-> called.n + 1, op |-> op, out |-> out, arg |-> arg, chain |-> chain,
     ops |-> ops, calls |-> mem.n, pre |-> wf, preChain |-> called.chain,
     preMaps |-> configMaps, preMem |-> MemStore]

\* The objects that back the contexts in the mode chosen.
Backing == IF EnableInMemoryContext THEN MemStore ELSE configMaps

RandomSuffixes == {<<"r1">>, <<"r2">>}

\* NewContext, lines 387-394: newContext, then Commit.  The memory store is
\* looked up after the store of the context was found or created.
NewContext(ns, name, owner) ==
    /\ CanCallContext
    /\ \E random \in RandomSuffixes :
          LET c == newContext(ns, name, owner, random)
              g == getMemoryStore(workflowMemoryCache, memoryStore, CacheKey(name, ns))
              d == commit([live |-> TRUE, store |-> c.store, components |-> NoObjects,
                           vars |-> EmptyValue, modified |-> TRUE], c.configMaps, c.MemStore)
          IN  IF c.err # ""
              THEN /\ wf' = NoContext
                   /\ configMaps' = c.configMaps
                   /\ MemStore' = c.MemStore
                   /\ called' = Calling("NewContext", c.err, Key(c.store), "")
                   /\ UNCHANGED <<workflowMemoryCache, memoryStore>>
              ELSE /\ wf' = d.wf
                   /\ configMaps' = d.configMaps
                   /\ MemStore' = d.MemStore
                   /\ workflowMemoryCache' = g.cache
                   /\ memoryStore' = g.m
                   /\ called' = Calling("NewContext", d.err, Key(c.store),
                                        IF d.err = "" THEN "committed" ELSE "")
    /\ UNCHANGED <<operatorVars, mem, goroutines, EnableInMemoryContext>>

\* LoadContext, lines 469-491.
LoadContext(ns, name, ctxName) ==
    /\ CanCallContext
    /\ LET empty == [Namespace |-> ns, Name |-> ctxName, OwnerReferences |-> <<>>,
                     Data |-> NoObjects]
           c == IF EnableInMemoryContext THEN GetOrCreateInMemoryContext(MemStore, empty)
                ELSE [store |-> IF Key(empty) \in DOMAIN configMaps THEN configMaps[Key(empty)]
                                ELSE empty,
                      MemStore |-> MemStore]
           g == getMemoryStore(workflowMemoryCache, memoryStore, CacheKey(name, ns))
           chain == IF called.chain = "committed" /\ Key(empty) = Key(wf.store)
                    THEN "loaded" ELSE ""
       IN  IF ~EnableInMemoryContext /\ Key(empty) \notin DOMAIN configMaps
           THEN /\ wf' = NoContext
                /\ called' = Calling("LoadContext", "notfound", Key(empty), "")
                /\ UNCHANGED <<MemStore, workflowMemoryCache, memoryStore>>
           ELSE /\ wf' = loadFromConfigMap([live |-> TRUE, store |-> c.store,
                                            components |-> NoObjects, vars |-> EmptyValue,
                                            modified |-> FALSE], c.store)
                /\ MemStore' = c.MemStore
                /\ workflowMemoryCache' = g.cache
                /\ memoryStore' = g.m
                /\ called' = Calling("LoadContext", "", Key(empty), chain)
    /\ UNCHANGED <<operatorVars, mem, goroutines, EnableInMemoryContext, configMaps>>

\* LoadFromConfigMap, lines 287-313, with an object of the backing store.
LoadFromConfigMap ==
    /\ CanCallContext
    /\ wf.live
    /\ \E key \in DOMAIN Backing :
          /\ wf' = loadFromConfigMap(wf, Backing[key])
          /\ called' = Calling("LoadFromConfigMap", "", key,
                               IF called.chain = "committed" /\ key = Key(wf.store)
                               THEN "loaded" ELSE "")
    /\ UNCHANGED <<operatorVars, memoryStore, mem, goroutines, workflowMemoryCache,
                   EnableInMemoryContext, configMaps, MemStore>>

\* The arguments of the calls told apart here.
VarValues == {1, 2}
Patches == {"y" :> 2, "x" :> 2}
MutablePaths == {<<<<"k">>>>, <<<<"k">>, <<"j">>>>}
MutableData == <<[text |-> "v2"]>>

\* SetVar, lines 147-159: the value v is filled in under the label "x", and
\* a value that does not unify with the one there is an error.
SetVar ==
    /\ CanCallContext
    /\ wf.live
    /\ \E v \in VarValues :
          IF Unifiable(wf.vars, "x" :> v)
          THEN /\ wf' = [wf EXCEPT !.vars = Unify(@, "x" :> v), !.modified = TRUE]
               /\ called' = Calling("SetVar", "", <<"x", v>>, "")
          ELSE /\ wf' = wf
               /\ called' = Calling("SetVar", "conflict", <<"x", v>>, "")
    /\ UNCHANGED <<operatorVars, memoryStore, mem, goroutines, workflowMemoryCache,
                   EnableInMemoryContext, configMaps, MemStore>>

\* GetVar, lines 142-144.
GetVar ==
    /\ CanCallContext
    /\ wf.live
    /\ called' = Calling("GetVar", IF "x" \in DOMAIN wf.vars THEN "" ELSE "notfound", <<"x">>,
                         called.chain)
    /\ UNCHANGED <<operatorVars, memoryStore, mem, goroutines, workflowMemoryCache,
                   EnableInMemoryContext, configMaps, MemStore, wf>>

\* PatchComponent, lines 129-139.
PatchComponent ==
    /\ CanCallContext
    /\ wf.live
    /\ \E name \in {"web"}, patchValue \in Patches :
          IF name \notin DOMAIN wf.components
          THEN /\ wf' = wf
               /\ called' = Calling("PatchComponent", "notfound", <<name>>, "")
          ELSE IF ~Unifiable(wf.components[name].Workload, patchValue)
          THEN /\ wf' = wf
               /\ called' = Calling("PatchComponent", "conflict", <<name>>, "")
          ELSE /\ wf' = [wf EXCEPT !.components[name].Workload = Unify(@, patchValue),
                                   !.modified = TRUE]
               /\ called' = Calling("PatchComponent", "", <<name>>, "")
    /\ UNCHANGED <<operatorVars, memoryStore, mem, goroutines, workflowMemoryCache,
                   EnableInMemoryContext, configMaps, MemStore>>

\* GetMutableValue, lines 168-170.
GetMutableValue ==
    /\ CanCallContext
    /\ wf.live
    /\ called' = Calling("GetMutableValue", "", <<"k">>, called.chain)
    /\ UNCHANGED <<operatorVars, memoryStore, mem, goroutines, workflowMemoryCache,
                   EnableInMemoryContext, configMaps, MemStore, wf>>

\* SetMutableValue, lines 173-176.
SetMutableValue ==
    /\ CanCallContext
    /\ wf.live
    /\ \E paths \in MutablePaths :
          /\ wf' = [wf EXCEPT !.store.Data = Store(@, Join(paths, <<".">>), MutableData),
                              !.modified = TRUE]
          /\ called' = Calling("SetMutableValue", "", Join(paths, <<".">>), "")
    /\ UNCHANGED <<operatorVars, memoryStore, mem, goroutines, workflowMemoryCache,
                   EnableInMemoryContext, configMaps, MemStore>>

\* DeleteMutableValue, lines 179-185.
DeleteMutableValue ==
    /\ CanCallContext
    /\ wf.live
    /\ \E paths \in MutablePaths :
          LET key == Join(paths, <<".">>)
          IN  /\ wf' = IF key \in DOMAIN wf.store.Data
                       THEN [wf EXCEPT !.store.Data = Delete(@, key), !.modified = TRUE]
                       ELSE wf
              /\ called' = Calling("DeleteMutableValue", "", key, "")
    /\ UNCHANGED <<operatorVars, memoryStore, mem, goroutines, workflowMemoryCache,
                   EnableInMemoryContext, configMaps, MemStore>>

\* Commit, lines 230-241.
Commit ==
    /\ CanCallContext
    /\ wf.live
    /\ LET d == commit(wf, configMaps, MemStore)
       IN  /\ wf' = d.wf
           /\ configMaps' = d.configMaps
           /\ MemStore' = d.MemStore
           /\ called' = Calling("Commit", d.err, Key(wf.store),
                                IF ~wf.modified THEN called.chain
                                ELSE IF d.err = "" THEN "committed" ELSE "")
    /\ UNCHANGED <<operatorVars, memoryStore, mem, goroutines, workflowMemoryCache,
                   EnableInMemoryContext>>

\* CleanupMemoryStore, lines 397-399: the context in use keeps its map.
CleanupMemoryStore(name, ns) ==
    /\ CanCallContext
    /\ workflowMemoryCache' = Delete(workflowMemoryCache, CacheKey(name, ns))
    /\ called' = Calling("CleanupMemoryStore", "", CacheKey(name, ns), called.chain)
    /\ UNCHANGED <<operatorVars, memoryStore, mem, goroutines, EnableInMemoryContext,
                   configMaps, MemStore, wf>>

ContextUnused ==
    /\ goroutines = [g \in Goroutines |-> Idle]
    /\ workflowMemoryCache = NoObjects
    /\ EnableInMemoryContext = FALSE
    /\ configMaps = NoObjects
    /\ MemStore = NoObjects
    /\ wf = NoContext
    /\ called = NoContextCall

(***************************************************************************)
(* Runs the operator is constructed on                                     *)
(***************************************************************************)
\* wr.Spec.Mode: a nil pointer, or the modes the run declares, each of which
\* is "" when the run leaves it out.
NilMode == [nil |-> TRUE, Steps |-> "", SubSteps |-> ""]
SpecMode(s, ss) == [nil |-> FALSE, Steps |-> s, SubSteps |-> ss]

Inline(list) == [inline |-> TRUE, found |-> TRUE, list |-> list, mode |-> NilMode]

Apply(n, d, i, o) == Step(n, WorkflowStepTypeApply, d, i, o, <<>>)
Wait(n, d, i, o) == Step(n, WorkflowStepTypeSuspend, d, i, o, <<>>)
Group(n, d, subs) == Step(n, WorkflowStepTypeStepGroup, d, <<>>, <<>>, subs)

\* A produces x; B waits for A and produces out-y; C consumes out-y.
Chain ==
    <<Apply("A", <<>>, <<>>, <<"x">>),
      Wait("B", <<"A">>, <<>>, <<"out-y">>),
      Apply("C", <<>>, <<"out-y">>, <<>>)>>

\* A produces x; the substep s1 of G consumes x and produces y; the
\* top-level step T consumes y.
Grouped ==
    <<Apply("A", <<>>, <<>>, <<"x">>),
      Group("G", <<>>, <<Apply("s1", <<>>, <<"x">>, <<"y">>),
                         Wait("s2", <<"s1">>, <<>>, <<>>)>>),
      Apply("T", <<>>, <<"y">>, <<>>)>>

\* B depends on the group G; the substep h1 of H consumes the output of s1.
TwoGroups ==
    <<Group("G", <<>>, <<Apply("s1", <<>>, <<>>, <<"u">>),
                         Apply("s2", <<"s1">>, <<>>, <<"v">>)>>),
      Apply("B", <<"G">>, <<>>, <<"w">>),
      Group("H", <<>>, <<Apply("h1", <<>>, <<"u">>, <<>>),
                         Wait("h2", <<>>, <<>>, <<>>)>>)>>

\* Two groups with a substep of the same name (names are unique within a
\* parent only).
Twins ==
    <<Group("G1", <<>>, <<Apply("s", <<>>, <<>>, <<"p">>)>>),
      Apply("E", <<"G1">>, <<>>, <<>>),
      Group("G2", <<>>, <<Apply("s", <<>>, <<>>, <<"q">>)>>)>>

\* A and B depend on each other; C depends on itself.
Cyclic ==
    <<Apply("A", <<"B">>, <<>>, <<>>),
      Apply("B", <<"A">>, <<>>, <<>>),
      Apply("C", <<"C">>, <<>>, <<>>)>>

\* spec.workflowRef names a Workflow that does not exist.
Referenced == [inline |-> FALSE, found |-> FALSE, list |-> <<>>, mode |-> NilMode]

Absent == [Phase |-> "absent", Reason |-> ""]
Ph(p, r) == [Phase |-> p, Reason |-> r]
Succeeded == Ph(WorkflowStepPhaseSucceeded, "")
Running == Ph(WorkflowStepPhaseRunning, "")
Pending == Ph(WorkflowStepPhasePending, "")
Skipped == Ph(WorkflowStepPhaseSkipped, "")
Suspending == Ph(WorkflowStepPhaseSuspending, "")
Failed(r) == Ph(WorkflowStepPhaseFailed, r)

IdOf(n) ==
    CASE n = "A" -> "id01" [] n = "B" -> "id02" [] n = "C" -> "id03"
      [] n = "G" -> "id04" [] n = "s1" -> "id05" [] n = "s2" -> "id06"
      [] n = "T" -> "id07" [] n = "H" -> "id08" [] n = "h1" -> "id09"
      [] n = "h2" -> "id10" [] n = "G1" -> "id11" [] n = "G2" -> "id12"
      [] n = "E" -> "id13" [] OTHER -> "id14"

\* The phase of a group follows its substeps.
GroupPhase(subs) ==
    IF \E j \in DOMAIN subs : subs[j].Phase = WorkflowStepPhaseFailed
    THEN Failed(StatusReasonExecute)
    ELSE IF \E j \in DOMAIN subs : subs[j].Phase \in {WorkflowStepPhaseRunning, WorkflowStepPhasePending}
    THEN Running
    ELSE Succeeded

Present(s) == LET Here(x) == x.Phase # "absent" IN SelectSeq(s, Here)

SubOf(d, c) ==
    [Name |-> d.Name, Type |-> d.Type, Phase |-> c.Phase, Reason |-> c.Reason, ID |-> IdOf(d.Name)]

\* The status entries of the declared list ss under the choice pick, which
\* maps <<"", name>> of each plain step and <<group, name>> of each substep
\* to a phase and reason or to Absent; a group is absent when all its
\* substeps are.
StatusOf(ss, pick) ==
    LET One(d) ==
            IF d.Type # WorkflowStepTypeStepGroup
            THEN SubOf(d, pick[<<"", d.Name>>]) @@ [SubStepsStatus |-> <<>>]
            ELSE LET subs == Present([j \in DOMAIN d.SubSteps |->
                                        SubOf(d.SubSteps[j], pick[<<d.Name, d.SubSteps[j].Name>>])])
                     g == IF subs = <<>> THEN Absent ELSE GroupPhase(subs)
                 IN  SubOf(d, g) @@ [SubStepsStatus |-> subs]
    IN  Present([i \in DOMAIN ss |-> One(ss[i])])

Picks(opts) ==
    {f \in [DOMAIN opts -> UNION {opts[k] : k \in DOMAIN opts}] : \A k \in DOMAIN opts : f[k] \in opts[k]}

ChainOpts ==
    (<<"", "A">> :> {Succeeded, Failed(StatusReasonExecute)})
    @@ (<<"", "B">> :> {Running, Suspending, Failed(StatusReasonFailedAfterRetries)})
    @@ (<<"", "C">> :> {Absent, Pending})

GroupedOpts ==
    (<<"", "A">> :> {Succeeded, Failed(StatusReasonExecute)})
    @@ (<<"G", "s1">> :> {Succeeded, Failed(StatusReasonExecute)})
    @@ (<<"G", "s2">> :> {Running})
    @@ (<<"", "T">> :> {Running})

TwoGroupsOpts ==
    (<<"G", "s1">> :> {Failed(StatusReasonExecute), Failed(StatusReasonTimeout)})
    @@ (<<"G", "s2">> :> {Skipped})
    @@ (<<"", "B">> :> {Absent, Succeeded})
    @@ (<<"H", "h1">> :> {Succeeded})
    @@ (<<"H", "h2">> :> {Absent, Suspending})

TwinsOpts ==
    (<<"G1", "s">> :> {Failed(StatusReasonExecute)})
    @@ (<<"", "E">> :> {Absent, Pending})
    @@ (<<"G2", "s">> :> {Succeeded, Failed(StatusReasonExecute)})

CyclicOpts ==
    (<<"", "A">> :> {Failed(StatusReasonExecute)})
    @@ (<<"", "B">> :> {Pending, Succeeded})
    @@ (<<"", "C">> :> {Failed(StatusReasonExecute)})

ReferencedSteps == <<St("A", WorkflowStepTypeApply, WorkflowStepPhaseFailed, StatusReasonExecute, "id01", <<>>)>>

BothModes == {WorkflowModeDAG, WorkflowModeStep}

\* Suspend, Terminated, Finished and EndTime of a run in progress, of a
\* suspended run and of a terminated run.
InProgress == [Suspend |-> FALSE, Terminated |-> FALSE, Finished |-> FALSE, EndTime |-> 0]
Suspended == [Suspend |-> TRUE, Terminated |-> FALSE, Finished |-> FALSE, EndTime |-> 0]
Ended == [Suspend |-> FALSE, Terminated |-> TRUE, Finished |-> TRUE, EndTime |-> 1]

\* [steps, statuses, modes, flags]: the declared steps, the status entries,
\* the modes and the flags a run is found with.
Runs ==
    {[steps |-> Inline(Chain), statuses |-> {StatusOf(Chain, f) : f \in Picks(ChainOpts)},
      modes |-> {Mode(m, WorkflowModeDAG) : m \in BothModes},
      flags |-> {InProgress, Suspended, Ended}],
     [steps |-> Inline(Grouped), statuses |-> {StatusOf(Grouped, f) : f \in Picks(GroupedOpts)},
      modes |-> {Mode(m, n) : m \in BothModes, n \in BothModes},
      flags |-> {InProgress, Suspended}],
     [steps |-> Inline(TwoGroups), statuses |-> {StatusOf(TwoGroups, f) : f \in Picks(TwoGroupsOpts)},
      modes |-> {Mode(m, m) : m \in BothModes},
      flags |-> {Suspended, Ended}],
     [steps |-> Inline(Twins), statuses |-> {StatusOf(Twins, f) : f \in Picks(TwinsOpts)},
      modes |-> {Mode(m, m) : m \in BothModes},
      flags |-> {InProgress}],
     [steps |-> Inline(Cyclic), statuses |-> {StatusOf(Cyclic, f) : f \in Picks(CyclicOpts)},
      modes |-> {Mode(m, m) : m \in BothModes},
      flags |-> {InProgress}],
     [steps |-> Referenced, statuses |-> {ReferencedSteps},
      modes |-> {Mode(WorkflowModeDAG, WorkflowModeDAG)},
      flags |-> {Ended}]}

ContextName == "workflow-run-context"

\* Output names that are no identifiers and are therefore quoted as labels.
NeedsQuotes == {"out-y"}

LabelOf(n) == IF n \in NeedsQuotes THEN Quoted(n) ELSE Ident(n)

RECURSIVE FieldsOf(_, _)
FieldsOf(outs, i) ==
    IF i > Len(outs) THEN <<>> ELSE <<Field(LabelOf(outs[i]), 1)>> \o FieldsOf(outs, i + 1)

HasRun(sts, group, n) ==
    \E i \in DOMAIN sts :
        \/ group = "" /\ sts[i].Name = n
              /\ sts[i].Phase \in {WorkflowStepPhaseSucceeded, WorkflowStepPhaseFailed}
        \/ sts[i].Name = group /\ \E j \in DOMAIN sts[i].SubStepsStatus :
              /\ sts[i].SubStepsStatus[j].Name = n
              /\ sts[i].SubStepsStatus[j].Phase \in {WorkflowStepPhaseSucceeded, WorkflowStepPhaseFailed}

RECURSIVE WrittenBy(_, _, _, _)
WrittenBy(ss, sts, group, i) ==
    IF i > Len(ss) THEN <<>>
    ELSE (IF HasRun(sts, group, ss[i].Name) THEN FieldsOf(ss[i].Outputs, 1) ELSE <<>>)
         \o WrittenBy(ss[i].SubSteps, sts, ss[i].Name, 1)
         \o WrittenBy(ss, sts, group, i + 1)

\* The vars of the context: a field of the run's own, and the outputs of the
\* steps and substeps that have succeeded or failed.
VarsOf(ss, sts) == <<Field(Ident("env"), 0)>> \o WrittenBy(ss, sts, "", 1)

Init ==
    \E r \in Runs : \E sts \in r.statuses : \E m \in r.modes : \E f \in r.flags :
        /\ steps = r.steps
        /\ stored = Obj([Suspend |-> f.Suspend, Terminated |-> f.Terminated,
                         Finished |-> f.Finished, EndTime |-> f.EndTime, Mode |-> m,
                         ContextBackend |-> ContextName, Steps |-> sts], 1)
        /\ run = stored
        /\ cm = [exists |-> TRUE, vars |-> VarsOf(r.steps.list, sts)]
        /\ last = [op |-> "New", step |-> "", out |-> "ok", dependency |-> <<>>,
                   preStored |-> stored.status, preRun |-> stored.status, preCM |-> cm]
        /\ ops = 0
        /\ writes = 0
        /\ dep = NoCall
        /\ tasks = NoTasks
        /\ memoryStore = NoValues
        /\ mem = NoCounts
        /\ ContextUnused

Next ==
    \/ Suspend
    \/ Resume
    \/ Rollback
    \/ Terminate
    \/ Restart
    \/ ExternalWrite
    \/ NewWorkflowRunOperator

Spec == Init /\ [][Next]_vars

(***************************************************************************)
(* Reconciles of a run, each generating the task runners, with operator    *)
(* calls between them.                                                     *)
(***************************************************************************)
\* What a run declares as spec.mode: nothing, the top-level mode only, or
\* both modes.
DeclaredModes ==
    {NilMode, SpecMode(WorkflowModeDAG, ""), SpecMode(WorkflowModeDAG, WorkflowModeStep)}

GenRuns ==
    {[steps |-> Inline(Chain),
      statuses |-> {StatusOf(Chain, f) : f \in Picks(
                       (<<"", "A">> :> {Succeeded})
                       @@ (<<"", "B">> :> {Failed(StatusReasonFailedAfterRetries)})
                       @@ (<<"", "C">> :> {Absent, Pending}))},
      modes |-> {Mode(WorkflowModeStep, WorkflowModeDAG)},
      declares |-> {SpecMode(WorkflowModeStep, WorkflowModeDAG)},
      flags |-> {InProgress}],
     [steps |-> Inline(Twins), statuses |-> {StatusOf(Twins, f) : f \in Picks(TwinsOpts)},
      modes |-> {Mode(WorkflowModeDAG, WorkflowModeDAG)},
      declares |-> DeclaredModes,
      flags |-> {InProgress}],
     [steps |-> Referenced, statuses |-> {ReferencedSteps},
      modes |-> {Mode(WorkflowModeDAG, WorkflowModeDAG)},
      declares |-> {NilMode},
      flags |-> {Ended}]}

InitGen ==
    \E r \in GenRuns : \E sts \in r.statuses : \E m \in r.modes : \E f \in r.flags :
        /\ \E d \in r.declares : steps = [r.steps EXCEPT !.mode = d]
        /\ stored = Obj([Suspend |-> f.Suspend, Terminated |-> f.Terminated,
                         Finished |-> f.Finished, EndTime |-> f.EndTime, Mode |-> m,
                         ContextBackend |-> ContextName, Steps |-> sts], 1)
        /\ run = stored
        /\ cm = [exists |-> TRUE, vars |-> VarsOf(r.steps.list, sts)]
        /\ last = [op |-> "New", step |-> "", out |-> "ok", dependency |-> <<>>,
                   preStored |-> stored.status, preRun |-> stored.status, preCM |-> cm]
        /\ ops = 0
        /\ writes = 0
        /\ dep = NoCall
        /\ tasks = NoTasks
        /\ memoryStore = NoValues
        /\ mem = NoCounts
        /\ ContextUnused

NextGen ==
    \/ Generate
    \/ Suspend
    \/ Resume
    \/ Rollback
    \/ Terminate
    \/ Restart
    \/ NewWorkflowRunOperator

SpecGen == InitGen /\ [][NextGen]_vars

(***************************************************************************)
(* Calls on the memory store of one context, the store empty or holding a  *)
(* value under the key c.                                                  *)
(***************************************************************************)
InitMem ==
    /\ steps = Inline(<<>>)
    /\ stored = Obj(ZeroStatus, 1)
    /\ run = stored
    /\ cm = NoCM
    /\ last = [op |-> "New", step |-> "", out |-> "ok", dependency |-> <<>>,
               preStored |-> ZeroStatus, preRun |-> ZeroStatus, preCM |-> NoCM]
    /\ ops = 0
    /\ writes = 0
    /\ dep = NoCall
    /\ tasks = NoTasks
    /\ memoryStore \in {NoValues, Store(NoValues, <<"c">>, Other), Store(NoValues, <<"c">>, IntValue(2))}
    /\ mem = NoCounts
    /\ ContextUnused

NextMem ==
    \/ IncreaseCountValueInMemory
    \/ SetValueInMemory
    \/ DeleteValueInMemory

SpecMem == InitMem /\ [][NextMem]_vars

(***************************************************************************)
(* Goroutines that count on one context, whose memory store starts empty   *)
(***************************************************************************)
InitRace ==
    /\ steps = Inline(<<>>)
    /\ stored = Obj(ZeroStatus, 1)
    /\ run = stored
    /\ cm = NoCM
    /\ last = [op |-> "New", step |-> "", out |-> "ok", dependency |-> <<>>,
               preStored |-> ZeroStatus, preRun |-> ZeroStatus, preCM |-> NoCM]
    /\ ops = 0
    /\ writes = 0
    /\ dep = NoCall
    /\ tasks = NoTasks
    /\ memoryStore = NoValues
    /\ mem = NoCounts
    /\ ContextUnused

NextRace == \E g \in Goroutines : LoadCount(g) \/ StoreCount(g)

SpecRace == InitRace /\ [][NextRace]_vars

(***************************************************************************)
(* Contexts of the run "run", whose owner reference is uid2, on a backing  *)
(* store that holds no object of that name, the object of this run, or the *)
(* object of an earlier run of the same name, uid1                         *)
(***************************************************************************)
Namespace == <<"ns">>
RunName == <<"run">>
Owner == <<"uid2">>
EarlierOwner == <<"uid1">>

\* The component and the vars of the run.
WebComponent == [Workload |-> "x" :> 1, Auxiliaries |-> <<"y" :> 1>>]
RunVars == "x" :> 1

\* A context object with the component, the vars and a mutable value.
ObjectOf(owner) ==
    [Namespace |-> Namespace, Name |-> generateStoreName(RunName), OwnerReferences |-> owner,
     Data |-> (ConfigMapKeyComponents :> Marshal("web" :> componentString(WebComponent)))
              @@ (ConfigMapKeyVars :> String(RunVars))
              @@ (<<"k">> :> <<[text |-> "v1"]>>)]

Objects ==
    {NoObjects} \cup {Key(ObjectOf(o)) :> ObjectOf(o) : o \in {Owner, EarlierOwner}}

\* The context that LoadContext has made of such an object.
Loaded(object) ==
    [live |-> TRUE, store |-> object, components |-> "web" :> WebComponent, vars |-> RunVars,
     modified |-> FALSE]

InitCtx ==
    /\ steps = Inline(<<>>)
    /\ stored = Obj(ZeroStatus, 1)
    /\ run = stored
    /\ cm = NoCM
    /\ last = [op |-> "New", step |-> "", out |-> "ok", dependency |-> <<>>,
               preStored |-> ZeroStatus, preRun |-> ZeroStatus, preCM |-> NoCM]
    /\ ops = 0
    /\ writes = 0
    /\ dep = NoCall
    /\ tasks = NoTasks
    /\ memoryStore = NoValues
    /\ mem = NoCounts
    /\ goroutines = [g \in Goroutines |-> Idle]
    /\ EnableInMemoryContext \in BOOLEAN
    /\ MemStore \in IF EnableInMemoryContext THEN Objects ELSE {NoObjects}
    /\ configMaps \in IF EnableInMemoryContext THEN {NoObjects, MemStore} ELSE Objects
    /\ \/ /\ wf = NoContext
          /\ workflowMemoryCache = NoObjects
       \/ /\ Key(ObjectOf(Owner)) \in DOMAIN Backing
          /\ wf = Loaded(Backing[Key(ObjectOf(Owner))])
          /\ workflowMemoryCache = CacheKey(RunName, Namespace) :> Held
    /\ called = NoContextCall

\* The names under which a context of the run may be stored.
ContextNames ==
    {generateStoreName(RunName)} \cup {k[2] : k \in DOMAIN Backing}

\* The memory store is used through a context.  Its calls touch nothing
\* that the other calls read or write, so one such call is taken, after the
\* others.
CanCallMemory == wf.live /\ CanCallContext /\ mem.n = 0

NextCtx ==
    \/ mem.n = 0 /\ NewContext(Namespace, RunName, Owner)
    \/ mem.n = 0 /\ \E ctxName \in ContextNames : LoadContext(Namespace, RunName, ctxName)
    \/ mem.n = 0 /\ LoadFromConfigMap
    \/ mem.n = 0 /\ SetVar
    \/ mem.n = 0 /\ GetVar
    \/ mem.n = 0 /\ PatchComponent
    \/ mem.n = 0 /\ GetMutableValue
    \/ mem.n = 0 /\ SetMutableValue
    \/ mem.n = 0 /\ DeleteMutableValue
    \/ mem.n = 0 /\ Commit
    \/ CanCallMemory /\ IncreaseCountValueInMemory
    \/ CanCallMemory /\ GetValueInMemory
    \/ CanCallMemory /\ SetValueInMemory
    \/ CanCallMemory /\ DeleteValueInMemory

SpecCtx == InitCtx /\ [][NextCtx]_vars

(***************************************************************************)
(* getStepDependency called directly on declared step lists: a, the group  *)
(* g with the substeps c and d, and b, with every choice of at most        *)
(* MaxDependsOn explicit dependencies and of one input per step.           *)
(***************************************************************************)
SeqOf(S) == CHOOSE s \in [1..Cardinality(S) -> S] : Range(s) = S

UpTo(pool) == {SeqOf(S) : S \in {T \in SUBSET pool : Cardinality(T) <= MaxDependsOn}}

OneOf(pool) == {<<>>} \cup {<<x>> : x \in pool}

DeclaredLists ==
    {<<Apply("a", da, <<>>, <<"oa">>),
       Group("g", dg, <<Apply("c", dc, ic, <<"oc">>), Apply("d", dd, id, <<>>)>>),
       Apply("b", db, ib, <<"ob">>)>> :
        da \in UpTo({"b", "c"}), dg \in UpTo({"a"}), dc \in UpTo({"a", "d"}),
        dd \in UpTo({"c", "g"}), db \in UpTo({"g", "d", "a"}),
        ic \in OneOf({"oa"}), id \in OneOf({"oc"}), ib \in OneOf({"oa", "oc"})}

InitDep ==
    /\ steps \in {Inline(l) : l \in DeclaredLists}
    /\ stored = Obj(ZeroStatus, 1)
    /\ run = stored
    /\ cm = NoCM
    /\ last = [op |-> "New", step |-> "", out |-> "ok", dependency |-> <<>>,
               preStored |-> ZeroStatus, preRun |-> ZeroStatus, preCM |-> NoCM]
    /\ ops = 0
    /\ writes = 0
    /\ dep = NoCall
    /\ tasks = NoTasks
    /\ memoryStore = NoValues
    /\ mem = NoCounts
    /\ ContextUnused

CallGetStepDependency ==
    /\ ~dep.called
    /\ \E stepName \in DeclaredNames \cup {UnknownStep} : \E dag \in BOOLEAN :
          dep' = [called |-> TRUE, stepName |-> stepName, dag |-> dag,
                  result |-> getStepDependency(declared, stepName, dag)]
    /\ UNCHANGED <<steps, stored, run, cm, last, ops, writes, tasks, memoryStore, mem, contextVars>>

NextDep == CallGetStepDependency

SpecDep == InitDep /\ [][NextDep]_vars

(***************************************************************************)
(* Properties                                                              *)
(***************************************************************************)
SameEntries(pre, post) ==
    /\ Places(pre) = Places(post)
    /\ \A p \in Places(pre) : At(pre, p).Name = At(post, p).Name

Called(op) == last.op = op

\* What C1 says of the status before and after Terminate.
TerminateEffect(pre, post) ==
    /\ post.Terminated
    /\ ~post.Suspend
    /\ SameEntries(pre.Steps, post.Steps)
    /\ \A p \in Places(pre.Steps) :
          LET a == At(pre.Steps, p)
              b == At(post.Steps, p)
          IN  /\ a.Phase = WorkflowStepPhaseRunning =>
                    b.Phase = WorkflowStepPhaseFailed /\ b.Reason = StatusReasonTerminate
              /\ a.Phase \in {WorkflowStepPhasePending, WorkflowStepPhaseSucceeded,
                              WorkflowStepPhaseSkipped} => b.Phase = a.Phase

\* C1: Terminate sets Terminated and clears Suspend, turns every Running
\* step and substep into Failed with reason Terminate, and keeps the phase
\* of every Pending, Succeeded and Skipped step and substep: in the held
\* run always, and in the stored run when the call succeeds.
C1_Terminate ==
    Called("Terminate") =>
        /\ TerminateEffect(last.preRun, run.status)
        /\ last.out = "ok" => TerminateEffect(last.preRun, stored.status)

C1_Witness ==
    /\ Called("Terminate")
    /\ last.out = "ok"
    /\ last.preRun.Suspend
    /\ \E p, q, r \in Places(last.preRun.Steps) :
          /\ p[2] = 0 /\ At(last.preRun.Steps, p).Phase = WorkflowStepPhaseRunning
          /\ q[2] # 0 /\ At(last.preRun.Steps, q).Phase = WorkflowStepPhaseRunning
          /\ At(last.preRun.Steps, r).Phase = WorkflowStepPhaseSucceeded

\* What Resume does to the phases when the steps it flips are those of type
\* suspend in the phase from.
ResumeEffect(pre, post, from) ==
    /\ ~post.Suspend
    /\ SameEntries(pre.Steps, post.Steps)
    /\ \A p \in Places(pre.Steps) :
          LET a == At(pre.Steps, p)
              b == At(post.Steps, p)
          IN  b.Phase = IF a.Type = WorkflowStepTypeSuspend /\ a.Phase = from
                        THEN WorkflowStepPhaseSucceeded ELSE a.Phase

Resumed == Called("Resume") /\ last.out = "ok" /\ last.preRun.Suspend /\ ~last.preRun.Terminated

C3_ResumeTerminated ==
    Called("Resume") /\ last.preRun.Terminated =>
        /\ last.out = "terminated"
        /\ run.status = last.preRun
        /\ stored.status = last.preStored

C3_Witness ==
    /\ Called("Resume")
    /\ last.preRun.Terminated
    /\ last.out = "terminated"
    /\ \E p \in Places(last.preRun.Steps) :
          /\ At(last.preRun.Steps, p).Type = WorkflowStepTypeSuspend
          /\ At(last.preRun.Steps, p).Phase = WorkflowStepPhaseRunning

(***************************************************************************)
(* Restart from a step                                                     *)
(***************************************************************************)
\* A partial restart that succeeded, the status and the context written.
Restarted == Called("Restart") /\ last.step # "" /\ last.out = "ok"

\* <<parent, name>> of the entry at place p: the parent of a top-level entry
\* is "".
KeyAt(sts, p) == <<IF p[2] = 0 THEN "" ELSE sts[p[1]].Name, At(sts, p).Name>>

Keys(sts) == {KeyAt(sts, p) : p \in Places(sts)}

HasEntry(sts, n) == \E p \in Places(sts) : At(sts, p).Name = n

IsTopLevel(sts, n) == \E i \in DOMAIN sts : sts[i].Name = n

\* The names of the groups whose substatus holds an entry named n.
Enclosing(sts, n) ==
    {sts[i].Name : i \in {k \in DOMAIN sts : \E j \in DOMAIN sts[k].SubStepsStatus :
                                                sts[k].SubStepsStatus[j].Name = n}}

DependentsOf(n, dag) == Range(getStepDependency(declared, n, dag).list)

\* The dependents of the restarted step s by the resolution for the mode of
\* its level.
OwnDependents(pre, s) ==
    DependentsOf(s, IF IsTopLevel(pre.Steps, s) THEN pre.Mode.Steps = WorkflowModeDAG
                    ELSE pre.Mode.SubSteps = WorkflowModeDAG)

\* C4 as claimed: after a successful Restart(step=s) no dependent of s has a
\* status entry, at top level or inside a group, s has none, and the group
\* enclosing a substep s has phase Running.
C4_AsClaimed ==
    Restarted =>
        LET pre == last.preRun
            post == stored.status.Steps
            s == last.step
        IN  /\ \A p \in Places(post) : At(post, p).Name \notin OwnDependents(pre, s) \cup {s}
            /\ ~IsTopLevel(pre.Steps, s) =>
                  \A g \in Enclosing(pre.Steps, s) :
                      \E i \in DOMAIN post : post[i].Name = g /\ post[i].Phase = WorkflowStepPhaseRunning

\* Downstream of s: its own dependents, the dependents of the group that
\* encloses it, and with every group among them the substeps of that group.
Downstream(pre, s) ==
    LET direct == OwnDependents(pre, s)
                  \cup UNION {DependentsOf(g, pre.Mode.Steps = WorkflowModeDAG) :
                                g \in IF IsTopLevel(pre.Steps, s) THEN {} ELSE Enclosing(pre.Steps, s)}
    IN  direct \cup {k[2] : k \in {x \in Keys(pre.Steps) : x[1] \in direct \cup {s}}}

\* C5: a successful Restart(step=s) leaves the status entry (phase, reason,
\* ID, substatus) of every step and substep that is neither s, nor
\* downstream of s, nor the group enclosing s as it was, under the same
\* parent.
C5_RestartFrame ==
    Restarted =>
        LET pre == last.preRun
            post == stored.status.Steps
            s == last.step
            touched == {s} \cup Downstream(pre, s) \cup Enclosing(pre.Steps, s)
        IN  \A p \in Places(pre.Steps) :
                At(pre.Steps, p).Name \notin touched =>
                    \E q \in Places(post) :
                        /\ KeyAt(post, q) = KeyAt(pre.Steps, p)
                        /\ At(post, q) = At(pre.Steps, p)

C5_Witness ==
    /\ Restarted
    /\ ~IsTopLevel(last.preRun.Steps, last.step)
    /\ Len(stored.status.Steps) < Len(last.preRun.Steps)
    /\ \E p, q \in Places(last.preRun.Steps) :
          /\ p[2] = 0 /\ q[2] # 0
          /\ {At(last.preRun.Steps, p).Name, At(last.preRun.Steps, q).Name}
                \cap ({last.step} \cup Downstream(last.preRun, last.step)
                      \cup Enclosing(last.preRun.Steps, last.step)) = {}

\* The outputs the declared step of key <<parent, name>> names.
DeclaredOutputs(k) ==
    LET tops == {i \in DOMAIN declared : declared[i].Name = IF k[1] = "" THEN k[2] ELSE k[1]}
    IN  UNION {IF k[1] = "" THEN Range(declared[i].Outputs)
               ELSE UNION {Range(declared[i].SubSteps[j].Outputs) :
                             j \in {x \in DOMAIN declared[i].SubSteps : declared[i].SubSteps[x].Name = k[2]}} :
               i \in tops}

\* C6 as claimed: after a successful partial restart the vars hold no
\* top-level field labelled with an output name of a step or substep whose
\* status entry the restart removed.
C6_AsClaimed ==
    Restarted /\ cm.exists =>
        LET removed == Keys(last.preRun.Steps) \ Keys(stored.status.Steps)
            stale == UNION {DeclaredOutputs(k) : k \in removed}
        IN  \A i \in DOMAIN cm.vars : \A o \in stale : cm.vars[i].label # LabelOf(o)

\* C7: Restart with a step name that no Failed status entry carries (the
\* named step is not Failed, or no step or substep status has the name)
\* returns an error and leaves the stored status and the stored context
\* as they were.
C7_RestartRefused ==
    /\ Called("Restart")
    /\ last.step # ""
    /\ ~\E p \in Places(last.preRun.Steps) :
           /\ At(last.preRun.Steps, p).Name = last.step
           /\ At(last.preRun.Steps, p).Phase = WorkflowStepPhaseFailed
    => /\ last.out \in {"nonfailed", "notfound", "noworkflow"}
       /\ HasEntry(last.preRun.Steps, last.step) /\ steps.found => last.out = "nonfailed"
       /\ ~HasEntry(last.preRun.Steps, last.step) /\ steps.found => last.out = "notfound"
       /\ stored.status = last.preStored
       /\ cm = last.preCM

C7_Witness ==
    /\ Called("Restart")
    /\ last.out = "nonfailed"
    /\ ~IsTopLevel(last.preRun.Steps, last.step)
    /\ \E p \in Places(last.preRun.Steps) : At(last.preRun.Steps, p).Phase = WorkflowStepPhaseFailed
    /\ last.preCM.exists

\* C8: Restart with an empty step name deletes the context object named by
\* status.ContextBackend, also when that object is already gone, and, the
\* status update succeeding, leaves the zero status stored.
C8_RestartAll ==
    Called("Restart") /\ last.step = "" =>
        /\ last.out \in {"ok", "conflict"}
        /\ last.preRun.ContextBackend # "" => ~cm.exists
        /\ last.preRun.ContextBackend = "" => cm = last.preCM
        /\ last.out = "ok" => stored.status = ZeroStatus /\ run.status = ZeroStatus

C8_Witness ==
    /\ Called("Restart") /\ last.step = "" /\ last.out = "ok"
    /\ last.preRun.ContextBackend # ""
    /\ ~last.preCM.exists
    /\ last.preStored.Steps # <<>>
    /\ last.preStored.Terminated

\* C9: a successful partial restart leaves Terminated, Suspend and Finished
\* false and EndTime zero in the stored status.
C9_RestartClearsFlags ==
    Restarted =>
        /\ ~stored.status.Terminated
        /\ ~stored.status.Suspend
        /\ ~stored.status.Finished
        /\ stored.status.EndTime = 0

C9_Witness ==
    /\ Restarted
    /\ last.preStored.Terminated
    /\ last.preStored.Finished
    /\ last.preStored.EndTime # 0

(***************************************************************************)
(* Dependency resolution                                                   *)
(***************************************************************************)
\* n depends on m: m is in the explicit DependsOn of the declared step n, or
\* n has an input whose From is an output name of the declared step m.
DependsOnRel(n, m) ==
    \E i, j \in DOMAIN Flat(declared) :
        LET a == Flat(declared)[i]
            b == Flat(declared)[j]
        IN  /\ a.Name = n
            /\ \/ m \in Range(a.DependsOn)
               \/ b.Name = m /\ Range(a.Inputs) \cap Range(b.Outputs) # {}

RECURSIVE Reaching(_, _)
Reaching(found, targets) ==
    LET more == {n \in DeclaredNames : \E m \in targets : DependsOnRel(n, m)}
    IN  IF more \subseteq found THEN found ELSE Reaching(found \cup more, more \ found)

\* The transitive closure of the reverse of dependsOn at stepName.
Closure(stepName) == Reaching({}, {stepName})

\* C10: in DAG mode the names getStepDependency returns are those of the
\* steps and substeps that depend on stepName directly or through other
\* steps, by explicit DependsOn or by consuming an output.
C10_DagDependents ==
    dep.called /\ dep.dag /\ dep.result.ok => Range(dep.result.list) = Closure(dep.stepName)

C10_Witness ==
    /\ dep.called /\ dep.dag /\ dep.result.ok
    /\ \E n, m \in Range(dep.result.list) :
          /\ ~DependsOnRel(n, dep.stepName)
          /\ m # n
          /\ DependsOnRel(m, dep.stepName)
          /\ \A i \in DOMAIN Flat(declared) :
                Flat(declared)[i].Name = m => dep.stepName \notin Range(Flat(declared)[i].DependsOn)
    /\ \E i \in DOMAIN declared : \E j \in DOMAIN declared[i].SubSteps :
          declared[i].SubSteps[j].Name \in Range(dep.result.list)

\* The names declared after stepName at its own level: the later top-level
\* steps of a top-level step, the later substeps of the parent of a substep.
LaterNames(stepName) ==
    LET tops == {i \in DOMAIN declared : declared[i].Name = stepName}
    IN  IF tops # {}
        THEN {declared[k].Name : k \in {k \in DOMAIN declared : \E i \in tops : k > i}}
        ELSE UNION {{declared[i].SubSteps[k].Name :
                        k \in {k \in DOMAIN declared[i].SubSteps :
                                  \E j \in DOMAIN declared[i].SubSteps :
                                      declared[i].SubSteps[j].Name = stepName /\ k > j}} :
                    i \in DOMAIN declared}

\* C11: outside DAG mode getStepDependency returns the steps declared after
\* stepName at its own level, each once, and nothing when no declared step
\* has the name.
C11_InOrderDependents ==
    dep.called /\ ~dep.dag =>
        /\ dep.result.ok
        /\ Range(dep.result.list) = LaterNames(dep.stepName)
        /\ Len(dep.result.list) = Cardinality(LaterNames(dep.stepName))
        /\ dep.stepName \notin DeclaredNames => dep.result.list = <<>>

C11_Witness ==
    /\ dep.called /\ ~dep.dag
    /\ \E i \in DOMAIN declared : \E j \in DOMAIN declared[i].SubSteps :
          /\ declared[i].SubSteps[j].Name = dep.stepName
          /\ j < Len(declared[i].SubSteps)
          /\ i < Len(declared)
    /\ dep.result.list # <<>>

(***************************************************************************)
(* The context after a restart from a step                                 *)
(***************************************************************************)
\* The output names of the declared steps and substeps named s or named in
\* deps.
OutputsToClear(s, deps) ==
    UNION {Range(Flat(declared)[i].Outputs) :
              i \in {i \in DOMAIN Flat(declared) :
                        Flat(declared)[i].Name = s \/ Flat(declared)[i].Name \in Range(deps)}}

\* The field is labelled with the name o, written as an identifier or as a
\* quoted string.
LabelledWith(field, o) == field.label \in {Ident(o), Quoted(o)}

\* C12: the vars a successful restart from s stores are the fields of the
\* vars before it, in their order and with their values, whose label is no
\* output name of s or of a step of the dependency list.
C12_ClearContextVars ==
    Restarted /\ last.preRun.ContextBackend # "" =>
        LET Stays(field) == ~\E o \in OutputsToClear(last.step, last.dependency) : LabelledWith(field, o)
        IN  cm.vars = SelectSeq(last.preCM.vars, Stays)

C12_Witness ==
    /\ Restarted /\ last.preRun.ContextBackend # ""
    /\ \E i, j \in DOMAIN last.preCM.vars :
          /\ last.preCM.vars[i].label = Quoted("out-y")
          /\ last.preCM.vars[j].label = Ident("x")
          /\ \A k \in DOMAIN cm.vars : cm.vars[k].label # Quoted("out-y")
          /\ \E k \in DOMAIN cm.vars : cm.vars[k] = last.preCM.vars[j]

(***************************************************************************)
(* The operator and other writers                                          *)
(***************************************************************************)
Writing == {"Suspend", "Resume", "Restart", "Terminate"}

\* C13 as claimed: Suspend, Resume, Restart and Terminate never end in a
\* conflict, and decide and mutate on the stored status of the moment of
\* the call, whatever the copy the operator holds.
C13_AsClaimed ==
    last.op \in Writing =>
        /\ last.out # "conflict"
        /\ Called("Resume") => (last.out = "terminated" <=> last.preStored.Terminated)
        /\ Called("Terminate") /\ last.out = "ok" => TerminateEffect(last.preStored, stored.status)

\* C14: Suspend succeeds, stores the status it found with Suspend set and
\* nothing else changed, and stores the status it found when Suspend was set
\* already.
C14_Suspend ==
    Called("Suspend") =>
        /\ last.out = "ok"
        /\ stored.status = [last.preStored EXCEPT !.Suspend = TRUE]
        /\ run.status = stored.status
        /\ last.preStored.Suspend => stored.status = last.preStored

C14_Witness ==
    /\ Called("Suspend")
    /\ last.preStored.Suspend
    /\ last.preRun # last.preStored
    /\ last.preStored.Steps # <<>>
    /\ stored.status = last.preStored

NotSuspended == Called("Resume") /\ ~last.preRun.Suspend

\* C15 as claimed: Resume on a run that is not suspended returns success
\* and leaves the status unchanged.
C15_AsClaimed ==
    NotSuspended => last.out = "ok" /\ stored.status = last.preStored

\* C15 amended: Resume on a held run that is neither suspended nor
\* terminated returns success and leaves the stored and the held status
\* unchanged.
C15_ResumeNotSuspended ==
    NotSuspended /\ ~last.preRun.Terminated =>
        /\ last.out = "ok"
        /\ stored.status = last.preStored
        /\ run.status = last.preRun

C15_Witness ==
    /\ NotSuspended /\ ~last.preRun.Terminated
    /\ last.out = "ok"
    /\ \E p \in Places(last.preRun.Steps) :
          /\ At(last.preRun.Steps, p).Type = WorkflowStepTypeSuspend
          /\ At(last.preRun.Steps, p).Phase = WorkflowStepPhaseRunning

\* C16: Rollback returns an error and leaves the stored status, the held
\* status and the context as they were.
C16_Rollback ==
    Called("Rollback") =>
        /\ last.out = "unsupported"
        /\ stored.status = last.preStored
        /\ run.status = last.preRun
        /\ cm = last.preCM

C16_Witness ==
    /\ Called("Rollback")
    /\ last.out = "unsupported"
    /\ last.preStored.Steps # <<>>
    /\ last.preCM.exists
    /\ ops = MaxOps

\* C17 as claimed: no operator action stores Terminated false on a run whose
\* stored status had Terminated true.
C17_AsClaimed ==
    last.op \in Writing \cup {"Rollback"} /\ last.preStored.Terminated => stored.status.Terminated

\* C17 amended: Suspend, Resume, Rollback and Terminate leave Terminated
\* true in the stored status; a Restart that succeeds, with or without a
\* step name, stores it false.
C17_TerminatedKept ==
    last.preStored.Terminated =>
        /\ last.op \in {"Suspend", "Resume", "Rollback", "Terminate"} => stored.status.Terminated
        /\ Called("Restart") /\ last.out = "ok" => ~stored.status.Terminated

C17_Witness ==
    /\ Called("Suspend")
    /\ last.preStored.Terminated
    /\ ~last.preRun.Terminated
    /\ stored.status.Terminated
    /\ stored.status.Suspend

(***************************************************************************)
(* The IDs of the task runners                                             *)
(***************************************************************************)
\* The ID Generate gave the declared step or substep <<parent, name>>.
RunnerIDs(parent, name) ==
    IF parent = ""
    THEN {tasks.runners[i].ID : i \in {i \in DOMAIN tasks.runners : tasks.runners[i].Name = name}}
    ELSE UNION {{tasks.runners[i].SubTaskRunners[j].ID :
                    j \in {j \in DOMAIN tasks.runners[i].SubTaskRunners :
                              tasks.runners[i].SubTaskRunners[j].Name = name}} :
                i \in {i \in DOMAIN tasks.runners : tasks.runners[i].Name = parent}}

\* The IDs the status Generate read records for <<parent, name>>.
RecordedIDs(parent, name) == {e[3] : e \in {e \in StatusIDs(tasks.status) : e[1] = parent /\ e[2] = name}}

\* C18: the runner of a declared step or substep gets the ID of the status
\* entry of its name (for a substep, in the substatus of its parent) when
\* there is one, and a random ID when there is none.
C18_ReusedIDs ==
    tasks.out = "ok" =>
        \A k \in DeclaredKeys :
            /\ RunnerIDs(k[1], k[2]) # {}
            /\ RecordedIDs(k[1], k[2]) # {} => RunnerIDs(k[1], k[2]) \subseteq RecordedIDs(k[1], k[2])
            /\ RecordedIDs(k[1], k[2]) = {} => RunnerIDs(k[1], k[2]) \subseteq RandomIDs

C18_Witness ==
    /\ tasks.out = "ok"
    /\ \E a, b, c \in DeclaredKeys :
          /\ a[1] = "" /\ RecordedIDs(a[1], a[2]) # {} /\ RunnerIDs(a[1], a[2]) \cap RandomIDs = {}
          /\ b[1] # "" /\ RecordedIDs(b[1], b[2]) # {} /\ RunnerIDs(b[1], b[2]) \cap RandomIDs = {}
          /\ RecordedIDs(c[1], c[2]) = {} /\ RunnerIDs(c[1], c[2]) = {"rnd2"}

\* C19 as claimed: every ID the status recorded for a step or substep at an
\* earlier reconcile is the ID Generate gives that step at a later one.
C19_AsClaimed ==
    tasks.out = "ok" => \A e \in tasks.seen : RunnerIDs(e[1], e[2]) = {e[3]}

(***************************************************************************)
(* The counters of the memory store                                        *)
(***************************************************************************)
\* C20: the calls of IncreaseCountValueInMemory on one path (the key its
\* arguments join to), from a call that finds no entry for it on, return 0,
\* 1, 2, ... in that order, whatever calls on other paths come between.
C20_Counts ==
    \A k \in DOMAIN mem.byKey : mem.byKey[k] = [i \in 1..Len(mem.byKey[k]) |-> i - 1]

C20_Witness ==
    \E k, o \in DOMAIN mem.byKey :
        /\ k # o
        /\ mem.byKey[k] = <<0, 1, 2>>
        /\ mem.byKey[o] # <<>>
        /\ mem.key = k /\ mem.ret = 2

\* The reasons that Terminate keeps on a Failed step.
KeptReasons == {StatusReasonFailedAfterRetries, StatusReasonTimeout}

FailedReasons(pre, post) ==
    /\ SameEntries(pre.Steps, post.Steps)
    /\ \A p \in Places(pre.Steps) :
          LET a == At(pre.Steps, p)
              b == At(post.Steps, p)
          IN  a.Phase = WorkflowStepPhaseFailed =>
                /\ b.Phase = WorkflowStepPhaseFailed
                /\ b.Reason = IF a.Reason \in KeptReasons THEN a.Reason ELSE StatusReasonTerminate

\* C27: Terminate keeps the reason of every step and substep that is Failed
\* with reason FailedAfterRetries or Timeout, gives every other Failed step
\* and substep the reason Terminate, and changes the phase of no Failed
\* step: in the held run always, and in the stored run when the call
\* succeeds.
C27_FailedReasons ==
    Called("Terminate") =>
        /\ FailedReasons(last.preRun, run.status)
        /\ last.out = "ok" => FailedReasons(last.preRun, stored.status)

C27_Witness ==
    /\ Called("Terminate")
    /\ last.out = "ok"
    /\ \E p, q, r \in Places(last.preRun.Steps) :
          /\ p[2] # 0 /\ At(last.preRun.Steps, p).Phase = WorkflowStepPhaseFailed
                      /\ At(last.preRun.Steps, p).Reason = StatusReasonTimeout
                      /\ At(stored.status.Steps, p).Reason = StatusReasonTimeout
          /\ q[2] = 0 /\ At(last.preRun.Steps, q).Phase = WorkflowStepPhaseFailed
                      /\ At(last.preRun.Steps, q).Reason = StatusReasonExecute
                      /\ At(stored.status.Steps, q).Reason = StatusReasonTerminate
          /\ r[2] # 0 /\ At(last.preRun.Steps, r).Phase = WorkflowStepPhaseSucceeded

C27_WitnessAfterRetries ==
    /\ Called("Terminate")
    /\ last.out = "ok"
    /\ \E p \in Places(last.preRun.Steps) :
          /\ p[2] = 0 /\ At(last.preRun.Steps, p).Phase = WorkflowStepPhaseFailed
                      /\ At(last.preRun.Steps, p).Reason = StatusReasonFailedAfterRetries
                      /\ At(stored.status.Steps, p).Reason = StatusReasonFailedAfterRetries

OperatorActions == {"Suspend", "Resume", "Rollback", "Restart", "Terminate"}

BothFlags(status) == status.Terminated /\ status.Suspend

\* C30 as claimed: no stored status has Terminated and Suspend both true.
C30_AsClaimed == ~BothFlags(stored.status)

\* C30 amended: a Terminate that succeeds stores Suspend false, and an
\* operator action leaves Terminated and Suspend both true in the stored
\* status only when they were both true before it or when it is a Suspend
\* of a terminated run.
C30_SuspendOfTerminated ==
    /\ Called("Terminate") /\ last.out = "ok" => ~BothFlags(stored.status)
    /\ last.op \in OperatorActions /\ BothFlags(stored.status) =>
          \/ BothFlags(last.preStored)
          \/ Called("Suspend") /\ last.preStored.Terminated

\* A Suspend of a run that an earlier Terminate of a suspended run has
\* terminated.
C30_Witness ==
    /\ Called("Suspend")
    /\ last.out = "ok"
    /\ last.preStored.Terminated
    /\ ~last.preStored.Finished
    /\ ~last.preStored.Suspend
    /\ BothFlags(stored.status)

\* The dependents of the group g by the resolution for the top-level mode.
GroupDependents(pre, g) == DependentsOf(g, pre.Mode.Steps = WorkflowModeDAG)

\* C28 as claimed: after a successful Restart(step=s) of a failed substep s
\* of the group g, no dependent of s and no dependent of g has a status
\* entry, in the substatus of g, at top level or in the substatus of
\* another group, and g keeps its own entry.
C28_AsClaimed ==
    Restarted /\ ~IsTopLevel(last.preRun.Steps, last.step) =>
        LET pre == last.preRun
            post == stored.status.Steps
            s == last.step
        IN  \A g \in Enclosing(pre.Steps, s) :
                /\ \A p \in Places(post) :
                      At(post, p).Name \notin OwnDependents(pre, s) \cup GroupDependents(pre, g)
                /\ IsTopLevel(post, g)

\* The substep mode the run declares, DAG when it declares none.
DeclaredSubStepMode ==
    IF steps.mode.nil \/ steps.mode.SubSteps = "" THEN WorkflowModeDAG ELSE steps.mode.SubSteps

\* C29 as claimed: the task runner generated for a step of type step-group
\* has the substep mode the run declares, and DAG when the run declares no
\* substep mode.
C29_AsClaimed ==
    tasks.out = "ok" =>
        \A i \in DOMAIN tasks.runners :
            declared[i].Type = WorkflowStepTypeStepGroup =>
                tasks.runners[i].SubStepExecuteMode = DeclaredSubStepMode

\* C21 as claimed: when no call is in progress, the k calls made on a key
\* have returned k distinct values 0..k-1 and the counter stored under the
\* key is k-1.
C21_AsClaimed ==
    (\A g \in Goroutines : goroutines[g].pc = "idle") =>
        \A key \in DOMAIN mem.byKey :
            LET k == Len(mem.byKey[key])
            IN  /\ Range(mem.byKey[key]) = 0..(k - 1)
                /\ memoryStore[key] = IntValue(k - 1)

ContextCalled(op) == called.n > 0 /\ called.op = op

\* The step is a call op on the context.
ContextCall(op) == called'.n # called.n /\ called'.op = op

\* C22: a Commit of a context whose modified flag is false writes nothing
\* to the backing store and succeeds; a SetVar, PatchComponent or
\* SetMutableValue that succeeds and a DeleteMutableValue that removes a key
\* set the flag; GetVar, GetMutableValue and the calls on the memory store
\* leave the flag as it is.
C22_Modified ==
    [][/\ ContextCall("Commit") /\ ~wf.modified =>
             /\ configMaps' = configMaps
             /\ MemStore' = MemStore
             /\ called'.out = ""
       /\ (\E op \in {"SetVar", "PatchComponent", "SetMutableValue"} : ContextCall(op))
             /\ called'.out = "" => wf'.modified
       /\ ContextCall("DeleteMutableValue") /\ called'.arg \in DOMAIN wf.store.Data =>
             /\ wf'.modified
             /\ called'.arg \notin DOMAIN wf'.store.Data
       /\ ContextCall("GetVar") \/ ContextCall("GetMutableValue") => wf'.modified = wf.modified
       /\ mem'.n # mem.n => wf'.modified = wf.modified]_vars

\* A Commit of a loaded context that no call has modified, followed by a
\* call on the memory store.
C22_Witness ==
    /\ ContextCalled("Commit")
    /\ ~called.pre.modified
    /\ "web" \in DOMAIN called.pre.components
    /\ called.n > 1
    /\ mem.n = 1
    /\ ~wf.modified

SameContent(a, b) == a.components = b.components /\ a.vars = b.vars

\* C23: after a Commit that succeeded, a LoadFromConfigMap of the object it
\* wrote, into the same context or into one that LoadContext makes, gives
\* the components and the vars of the committed context.
C23_RoundTrip ==
    called.n > 0 /\ called.op \in {"LoadFromConfigMap", "LoadContext"}
       /\ called.out = "" /\ called.chain = "loaded" => SameContent(wf, called.pre)

\* The reload of a committed component that has a patched workload and an
\* auxiliary.
C23_Witness ==
    /\ ContextCalled("LoadContext")
    /\ called.chain = "loaded"
    /\ "web" \in DOMAIN wf.components
    /\ wf.components["web"].Workload = ("x" :> 1) @@ ("y" :> 2)
    /\ wf.components["web"].Auxiliaries # <<>>
    /\ wf.vars # EmptyValue

\* The reload of a committed context without components and vars.
C23_WitnessEmpty ==
    /\ ContextCalled("LoadFromConfigMap")
    /\ called.chain = "loaded"
    /\ DOMAIN wf.components = {}
    /\ wf.vars = EmptyValue
    /\ DataAt(Backing[Key(wf.store)].Data, ConfigMapKeyComponents) = Marshal(NoObjects)

\* C24: a Commit that succeeds after a Commit and a LoadFromConfigMap of the
\* committed object, with no mutator called in between, leaves the objects
\* of the backing store as they were.
C24_CommitAgain ==
    ContextCalled("Commit") /\ called.out = "" /\ called.preChain = "loaded" =>
        /\ configMaps = called.preMaps
        /\ MemStore = called.preMem

\* The second Commit of a context that is still modified and holds a
\* component.
C24_Witness ==
    /\ ContextCalled("Commit")
    /\ called.out = ""
    /\ called.preChain = "loaded"
    /\ called.pre.modified
    /\ "web" \in DOMAIN wf.components
    /\ Key(wf.store) \in DOMAIN Backing

\* The objects that backed the contexts before the last call.
BackingBefore == IF EnableInMemoryContext THEN called.preMem ELSE called.preMaps

BaseKey == <<Namespace, generateStoreName(RunName)>>

\* C25 as claimed: a context created while the base-named object exists with
\* other owner references is backed by a newly created object named base
\* name plus a random suffix, owned by the run, with none of the data of the
\* old object, in both modes of the backing store.
C25_AsClaimed ==
    ContextCalled("NewContext") /\ wf.live
       /\ BaseKey \in DOMAIN BackingBefore
       /\ BackingBefore[BaseKey].OwnerReferences # Owner =>
        /\ \E r \in RandomSuffixes : wf.store.Name = generateStoreName(RunName) \o <<"-">> \o r
        /\ Key(wf.store) \notin DOMAIN BackingBefore
        /\ wf.store.OwnerReferences = Owner
        /\ wf.store.Data = (ConfigMapKeyComponents :> Marshal(NoObjects))
                            @@ (ConfigMapKeyVars :> String(EmptyValue))

(***************************************************************************)
(* A run whose context is in use, restarted by the operator, and the       *)
(* contexts that are loaded or created for it afterwards                   *)
(***************************************************************************)
InitRestart ==
    \E r \in {g \in GenRuns : g.steps = Inline(Chain)} : \E sts \in r.statuses :
    \E m \in r.modes : \E f \in r.flags :
        /\ steps = r.steps
        /\ stored = Obj([Suspend |-> f.Suspend, Terminated |-> f.Terminated,
                         Finished |-> f.Finished, EndTime |-> f.EndTime, Mode |-> m,
                         ContextBackend |-> ContextName, Steps |-> sts], 1)
        /\ run = stored
        /\ cm = [exists |-> TRUE, vars |-> VarsOf(r.steps.list, sts)]
        /\ last = [op |-> "New", step |-> "", out |-> "ok", dependency |-> <<>>,
                   preStored |-> stored.status, preRun |-> stored.status, preCM |-> cm]
        /\ ops = 0
        /\ writes = 0
        /\ dep = NoCall
        /\ tasks = NoTasks
        /\ memoryStore = NoValues
        /\ mem = NoCounts
        /\ goroutines = [g \in Goroutines |-> Idle]
        /\ EnableInMemoryContext = FALSE
        /\ MemStore = NoObjects
        /\ configMaps = Key(ObjectOf(Owner)) :> ObjectOf(Owner)
        /\ wf = Loaded(ObjectOf(Owner))
        /\ workflowMemoryCache = CacheKey(RunName, Namespace) :> Held
        /\ called = NoContextCall

\* RestartWorkflow, operation.go lines 135-157, on the run and on the cluster
\* that holds its context object: the Delete of line 142 removes the object,
\* and no line touches workflowMemoryCache.
RestartRun ==
    /\ CanCall
    /\ \E step \in {""} \cup DeclaredNames :
          IF step = "" THEN RestartAll ELSE RestartStep(step)
    /\ ops' = ops + 1
    /\ configMaps' = IF cm'.exists THEN configMaps ELSE Delete(configMaps, Key(ObjectOf(Owner)))
    /\ UNCHANGED <<steps, writes, dep, tasks, memoryStore, mem, goroutines,
                   workflowMemoryCache, EnableInMemoryContext, MemStore, wf, called>>

CanUseMemory == wf.live /\ CanCallContext

\* The calls on the memory store are those on one counter, under the key a.
OnCounter == mem'.key = <<"a">>

NextRestart ==
    \/ RestartRun
    \/ cm.exists /\ LoadContext(Namespace, RunName, generateStoreName(RunName))
    \/ ~cm.exists /\ NewContext(Namespace, RunName, Owner)
    \/ CleanupMemoryStore(RunName, Namespace)
    \/ CanUseMemory /\ IncreaseCountValueInMemory /\ OnCounter
    \/ CanUseMemory /\ SetValueInMemory /\ OnCounter
    \/ CanUseMemory /\ GetValueInMemory /\ OnCounter

SpecRestart == InitRestart /\ [][NextRestart]_vars

\* The last operator call was a Restart that succeeded, and the first context
\* call, made after it, loaded or created a context of the run.
LoadedAfterRestart ==
    /\ Called("Restart")
    /\ last.out = "ok"
    /\ called.n = 1
    /\ called.op \in {"LoadContext", "NewContext"}
    /\ called.out = ""
    /\ called.ops = ops

\* C26 as claimed: the context loaded after a Restart, with or without a
\* step name, has an empty memory store, and the first call on that store
\* returns 0, as every call on an empty store does.
C26_AsClaimed ==
    LoadedAfterRestart =>
        /\ mem.n = called.calls => memoryStore = NoValues
        /\ mem.n = called.calls + 1 => mem.ret = 0

\* A Restart that returned an error.
RestartFailed == Called("Restart") /\ last.out \notin {"ok", "panic", "overflow"}

\* C31 as claimed: a Restart that returns an error, with or without a step
\* name, leaves the stored status and the stored context object as they
\* were before the call.
C31_AsClaimed ==
    RestartFailed => stored.status = last.preStored /\ cm = last.preCM

\* A Restart from a step that failed its validation.
RestartInvalid == Called("Restart") /\ last.step # "" /\ last.out \in {"nonfailed", "notfound"}

\* C32 as claimed: a Restart from a step that fails its validation (no
\* status entry of that name, or the named step is not Failed) leaves the
\* status of the run the operator holds as it was before the call.
C32_AsClaimed ==
    RestartInvalid => run.status = last.preRun

\* C33 as claimed: a Restart from a step of a run in DAG mode returns, with
\* success or with an error, whatever the declared steps are: the recursion
\* of findDependency comes to an end.
C33_AsClaimed ==
    Called("Restart") /\ last.step # "" /\ last.preRun.Mode.Steps = WorkflowModeDAG =>
        last.out # "overflow"

(***************************************************************************)
(* Contexts of several runs in one process: the runs a-b in the namespace  *)
(* c, a in the namespace b-c, and a in the namespace c                     *)
(***************************************************************************)
\* Names and namespaces are DNS-1123 names, character by character where a
\* hyphen stands.
RunKeys ==
    {[name |-> <<"a", "-", "b">>, ns |-> <<"c">>],
     [name |-> <<"a">>, ns |-> <<"b", "-", "c">>],
     [name |-> <<"a">>, ns |-> <<"c">>]}

InitRuns ==
    /\ steps = Inline(<<>>)
    /\ stored = Obj(ZeroStatus, 1)
    /\ run = stored
    /\ cm = NoCM
    /\ last = [op |-> "New", step |-> "", out |-> "ok", dependency |-> <<>>,
               preStored |-> ZeroStatus, preRun |-> ZeroStatus, preCM |-> NoCM]
    /\ ops = 0
    /\ writes = 0
    /\ dep = NoCall
    /\ tasks = NoTasks
    /\ memoryStore = NoValues
    /\ mem = NoCounts
    /\ ContextUnused

NextRuns ==
    \/ \E r \in RunKeys : NewContext(r.ns, r.name, Owner)
    \/ \E r \in RunKeys : LoadContext(r.ns, r.name, generateStoreName(r.name))
    \/ \E r \in RunKeys : CleanupMemoryStore(r.name, r.ns)
    \/ CanUseMemory /\ IncreaseCountValueInMemory /\ OnCounter
    \/ CanUseMemory /\ SetValueInMemory /\ OnCounter
    \/ CanUseMemory /\ GetValueInMemory /\ OnCounter

SpecRuns == InitRuns /\ [][NextRuns]_vars

\* The second context call made a context of another run than the first
\* one did: what the memory store holds was written through the context of
\* the first run.
SecondRun ==
    /\ called.n = 2
    /\ called.op \in {"NewContext", "LoadContext"}
    /\ called.out = ""
    /\ called.pre.live
    /\ Key(called.pre.store) # Key(wf.store)

\* C34 as claimed: the context of a run that differs in name or namespace
\* from the run whose context was used before sees none of the values set
\* and none of the counters increased through that context, and its first
\* call on the memory store returns 0.
C34_AsClaimed ==
    SecondRun =>
        /\ mem.n = called.calls => memoryStore = NoValues
        /\ mem.n = called.calls + 1 => mem.ret = 0

====
